---- MODULE Spec2Model ----
(***************************************************************************)
(* NomsBlockStore (go/store/nbs/store.go): several store instances of one  *)
(* process share one manifest, its in-process manifest cache and its       *)
(* update lock; a writer of another process changes the manifest directly. *)
(***************************************************************************)
EXTENDS Integers, Sequences, FiniteSets, TLC

\* ------------------------------------------------------------------ bounds
NChunks == 2          \* chunk payloads 1..NChunks; payload b weighs b bytes
MaxRoot == 1          \* roots 0..MaxRoot, 0 is the zero hash
MaxPuts == 2          \* cap on putCount of one store instance
MaxNovel == 1         \* cap on novel tables created by memtable rotation in Put
MaxExt == 1           \* manifest writes by the writer of the other process
MaxOpens == 1         \* times a store instance is dropped and opened again
MaxOps == 3           \* calls started by all threads and writers together

\* ------------------------------------------------- configuration of a store
\* The source's values (defaultMemTableSize 128MB, defaultMaxTables 256,
\* preflushChunkCount 8) are scaled down to the model's chunk sizes.
MemTableSize == 3     \* nbs.mtSize, bytes
MaxTables == 1        \* inlineConjoiner.maxTables
preflushChunkCount == 1

Stores == {"A", "B"}
Threads == {"a1", "b1"}
StoreOf(t) == IF t = "b1" THEN "B" ELSE "A"

Bytes == 1..NChunks
Roots == 0..MaxRoot
ZeroRoot == 0
\* chunks.EmptyChunk is the chunk of zero bytes: a payload like the others
EmptyChunk == 0
Payloads == {EmptyChunk} \cup Bytes

\* chunks.Chunk.Hash(): the address of a payload
H(b) == b + 10
Size(b) == b
Addrs == {H(b) : b \in Payloads}

\* ------------------------------------------------------------ small helpers
Range(f) == {f[i] : i \in DOMAIN f}
RECURSIVE FilterSeq(_, _)
FilterSeq(sq, keep) ==
    IF sq = <<>> THEN <<>>
    ELSE IF Head(sq) \in keep THEN <<Head(sq)>> \o FilterSeq(Tail(sq), keep)
         ELSE FilterSeq(Tail(sq), keep)

\* ----------------------------------------------------------- table files
\* A table file holds chunks; its name is the hash of its index, that is of
\* the addresses it holds.  A spec (name, chunkCount) is modelled by the name,
\* the count being the number of addresses.
TableName(tbl) == {H(b) : b \in tbl}
OpenTable(name) == {b \in Payloads : H(b) \in name}
tableHas(tbl, a) == \E b \in tbl : H(b) = a
AllTables == (SUBSET {b \in Payloads : Size(b) <= MemTableSize})

\* --------------------------------------------------------------- manifest
ZeroLock == <<>>
generateLockHash(root, specs) == <<root, specs>>
EmptyContents == [lock |-> ZeroLock, root |-> ZeroRoot, specs |-> <<>>]
specNames(contents) == Range(contents.specs)

\* ---------------------------------------------------------------- memTable
NilMT == [nil |-> TRUE, order |-> <<>>, size |-> 0]
newMemTable(mtSize) == [nil |-> FALSE, order |-> <<>>, size |-> mtSize]
mtTotal(m) == LET RECURSIVE Sum(_)
                  Sum(sq) == IF sq = <<>> THEN 0 ELSE Size(Head(sq)) + Sum(Tail(sq))
              IN Sum(m.order)
mtCount(m) == Len(m.order)
mtHas(m, a) == \E i \in 1..Len(m.order) : H(m.order[i]) = a
\* memTable.addChunk: <<fits, memtable afterwards>>
mtAddChunk(m, b) ==
    IF mtHas(m, H(b)) THEN <<TRUE, m>>
    ELSE IF mtTotal(m) + Size(b) > m.size THEN <<FALSE, m>>
    ELSE <<TRUE, [m EXCEPT !.order = Append(@, b)]>>

\* ---------------------------------------------------------------- tableSet
newTableSet == [novel |-> <<>>, upstream |-> <<>>]
tsAll(ts) == Range(ts.novel) \cup Range(ts.upstream)
tsHas(ts, a) == \E tbl \in tsAll(ts) : tableHas(tbl, a)
tsGet(ts, a) == IF tsHas(ts, a) THEN CHOOSE b \in UNION tsAll(ts) : H(b) = a
                ELSE EmptyChunk
tsNovel(ts) == Len(ts.novel)
NonEmpty(sq) == FilterSeq(sq, AllTables \ {{}})
\* tablePersister.Persist: the memtable's chunks the haver does not hold
Persist(m, haver) == {b \in Range(m.order) : ~tsHas(haver, H(b))}
tsPrepend(ts, m) == [ts EXCEPT !.novel = <<Persist(m, ts)>> \o @]
\* tableSet.Rebase: the novel tables kept, the upstream tables those of specs
tsRebase(ts, specs) ==
    [novel |-> ts.novel,
     upstream |-> [i \in 1..Len(specs) |-> OpenTable(specs[i])]]
tsFlatten(ts) == [novel |-> <<>>, upstream |-> NonEmpty(ts.novel) \o ts.upstream]
tsToSpecs(ts) ==
    LET live == NonEmpty(ts.novel) \o ts.upstream
    IN [i \in 1..Len(live) |-> TableName(live[i])]

VARIABLES
    manifest,    \* the stored manifest: [exists, contents]
    cache,       \* manifestCache entry of this manifest: [hit, contents]
    mmLock,      \* manifestLocks: the thread inside LockForUpdate, or "none"
    mt,          \* nbs.mt of each store
    tables,      \* nbs.tables of each store
    upstream,    \* nbs.upstream of each store
    putCount,    \* nbs.putCount of each store
    pc,          \* position of each thread
    arg,         \* arguments of the call a thread is in
    call,        \* the call that returned most recently, with what it returned
    extLeft,     \* writes the other process may still make
    opens,       \* times each store was opened again
    left,        \* calls that may still be started
    mtSize,      \* nbs.mtSize of each store
    rd,          \* the goroutine that reads a store while its thread writes
    puts,        \* the payloads whose Put returned nil on each store instance
    stored,      \* the table names the stored manifest has named
    history      \* the contents the stored manifest has held, where recorded

vars == <<manifest, cache, mmLock, mt, tables, upstream, putCount, pc, arg, call,
          extLeft, opens, left, mtSize, rd, puts, stored, history>>

\* ------------------------------------------------------- manifestManager
\* manifestManager.Fetch: reads the stored manifest and remembers it
mmFetch == [exists |-> manifest.exists, contents |-> manifest.contents,
            cache |-> [hit |-> TRUE, contents |-> manifest.contents]]
\* manifestManager.updateWillFail: <<cached contents, doomed>>
updateWillFail(lastLock) ==
    IF cache.hit /\ cache.contents.lock # lastLock
    THEN <<cache.contents, TRUE>> ELSE <<EmptyContents, FALSE>>
\* manifestManager.Update from manifest state m and cache c: compare-and-set
\* on the lock, short-circuited by the cache; returns the contents that stand
mmUpdateOn(m, c, lastLock, newContents) ==
    IF c.hit /\ c.contents.lock # lastLock
    THEN [result |-> c.contents, manifest |-> m, cache |-> c]
    ELSE IF m.contents.lock # lastLock
    THEN [result |-> m.contents, manifest |-> m,
          cache |-> [hit |-> TRUE, contents |-> m.contents]]
    ELSE [result |-> newContents,
          manifest |-> [exists |-> TRUE, contents |-> newContents],
          cache |-> [hit |-> TRUE, contents |-> newContents]]
mmUpdate(lastLock, newContents) == mmUpdateOn(manifest, cache, lastLock, newContents)

\* -------------------------------------------------------------- conjoiner
ConjoinRequired(ts) == Len(ts.upstream) > MaxTables
\* the positions of the two smallest tables of specs (ties: leftmost)
Smaller(specs, i, j) ==
    \/ Cardinality(specs[i]) < Cardinality(specs[j])
    \/ Cardinality(specs[i]) = Cardinality(specs[j]) /\ i < j
Conjoinees(specs) ==
    {i \in 1..Len(specs) :
        Cardinality({j \in 1..Len(specs) : Smaller(specs, j, i)}) < 2}
ConjoinedContents(up) ==
    LET picked == Conjoinees(up.specs)
        conjoined == UNION {up.specs[i] : i \in picked}
        keepers == FilterSeq(up.specs, Range(up.specs) \ {up.specs[i] : i \in picked})
        specs == <<conjoined>> \o keepers
    IN [lock |-> generateLockHash(up.root, specs), root |-> up.root, specs |-> specs]
\* conjoin(): CAS the conjoined contents in; on a lost CAS retry on the
\* returned contents when they still name every conjoinee, else give them back
Conjoin(up) ==
    LET nc1 == ConjoinedContents(up)
        u1 == mmUpdate(up.lock, nc1)
    IN IF u1.result.lock = nc1.lock THEN u1
       ELSE LET names == {up.specs[i] : i \in Conjoinees(up.specs)}
            IN IF names \subseteq specNames(u1.result)
               THEN LET keepers == FilterSeq(u1.result.specs, Range(u1.result.specs) \ names)
                        specs == <<UNION names>> \o keepers
                        nc2 == [lock |-> generateLockHash(u1.result.root, specs),
                                root |-> u1.result.root, specs |-> specs]
                    IN mmUpdateOn(u1.manifest, u1.cache, u1.result.lock, nc2)
               ELSE u1

\* ------------------------------------------------------------ thread state
NoArg == [cur |-> ZeroRoot, last |-> ZeroRoot, chunk |-> EmptyChunk, updates |-> {},
          contents |-> EmptyContents, why |-> "nil", calls |-> {}, held |-> {},
          lost |-> {}]
NoCall == [t |-> "none", op |-> "none", cur |-> ZeroRoot, last |-> ZeroRoot,
           chunk |-> EmptyChunk, updates |-> {}, held |-> {}, lost |-> {},
           ok |-> FALSE, err |-> "nil", why |-> "nil", calls |-> {}]
\* the reading goroutine outside every call: the store it read last, what it
\* asked for (hs), what it took under the read lock (data, has, found,
\* remaining, tables), the reads of table files it waits for (pending) and
\* what it was given (chunk, has, sent, absent, err, ranges under the table
\* keys keys); adapter tells whether the tables it locates chunks in are
\* chunkSourceAdapters; had and puts are the addresses the store could serve
\* and the payloads it had accepted when the call took its snapshot
Nil == -1
NoRead == [pc |-> "idle", op |-> "none", s |-> "A", hs |-> {}, data |-> Nil,
           has |-> FALSE, found |-> {}, remaining |-> FALSE,
           tables |-> newTableSet, pending |-> {}, chunk |-> EmptyChunk,
           sent |-> <<>>, absent |-> {}, ranges |-> {}, had |-> {},
           puts |-> {}, keys |-> {}, adapter |-> FALSE, err |-> "nil"]
Idle(t) == pc[t] = "idle"
\* nbs.mu is held across steps by UpdateManifest between Fetch and Update
\* (write side) and by GetMany while the memtable serves it (read side)
wLocked(s) == \E u \in Threads : StoreOf(u) = s /\ pc[u] = "uUpdate"
rLocked(s) == rd.pc = "gmLocked" /\ rd.s = s
muFree(s) == ~wLocked(s) /\ ~rLocked(s)
\* the manifest's history once it holds m
storedWith(m) == stored \cup specNames(m.contents)
\* the manifest's contents are recorded in the runs that start recording
Untracked == [on |-> FALSE, seen |-> {}]
recorded(m) ==
    IF history.on /\ m.exists
    THEN [history EXCEPT !.seen = @ \cup {m.contents}] ELSE history
ThreadsOf(s) == {u \in Threads : StoreOf(u) = s}

errLastRootMismatch == "last does not match nbs.Root()"
errOptimisticLockFailedRoot == "root moved"
errOptimisticLockFailedTables == "tables changed"
errAddChunkFailed == "failed to add chunk"

Init ==
    /\ manifest = [exists |-> FALSE, contents |-> EmptyContents]
    /\ cache = [hit |-> TRUE, contents |-> EmptyContents]
    /\ mmLock = "none"
    /\ mt = [s \in Stores |-> NilMT]
    /\ tables = [s \in Stores |-> newTableSet]
    /\ upstream = [s \in Stores |-> EmptyContents]
    /\ putCount = [s \in Stores |-> 0]
    /\ pc = [t \in Threads |-> "idle"]
    /\ arg = [t \in Threads |-> NoArg]
    /\ call = NoCall
    /\ extLeft = MaxExt
    /\ opens = [s \in Stores |-> 0]
    /\ left = MaxOps
    /\ mtSize = [s \in Stores |-> MemTableSize]
    /\ rd = NoRead
    /\ puts = [s \in Stores |-> {}]
    /\ stored = {}
    /\ history = Untracked

\* ------------------------------------------------------------------- reads
\* what Get takes from the memtable under the read lock: the chunk's data,
\* or nil when there is no memtable or it does not hold the address
mtGet(m, a) ==
    IF ~m.nil /\ mtHas(m, a) THEN CHOOSE b \in Range(m.order) : H(b) = a ELSE Nil
\* a Get that never asks the memtable
getChunkTablesOnly(data, ts, h) == tsGet(ts, h)
\* what Get returns for data taken from the memtable and the table set ts:
\* the memtable's chunk, else the tables', else the empty chunk
getChunk(data, ts, h) == IF data # Nil THEN data ELSE tsGet(ts, h)
\* what Has returns for the memtable's answer and the table set ts
hasChunk(has, ts, h) == IF has THEN TRUE ELSE tsHas(ts, h)
\* NomsBlockStore.Get with no step of another goroutine between its snapshot
\* and its lookup: memtable first, then the table set
Get(s, h) == getChunk(mtGet(mt[s], h), tables[s], h)
\* NomsBlockStore.Has, likewise
Has(s, h) == hasChunk(~mt[s].nil /\ mtHas(mt[s], h), tables[s], h)
\* NomsBlockStore.Root
Root(s) == upstream[s].root

\* --------------------------------------------------------------------- Put
\* an addChunk that rotates the memtable and gives up
addChunkNoRetry(m, ts, b, size) ==
    LET m0 == IF m.nil THEN newMemTable(size) ELSE m
        r0 == mtAddChunk(m0, b)
    IN IF r0[1] THEN [ok |-> TRUE, mt |-> r0[2], tables |-> ts]
       ELSE [ok |-> FALSE, mt |-> newMemTable(size), tables |-> tsPrepend(ts, m0)]
\* NomsBlockStore.addChunk on memtable m and table set ts of a store whose
\* memtables take size bytes
addChunk(m, ts, b, size) ==
    LET m0 == IF m.nil THEN newMemTable(size) ELSE m
        r0 == mtAddChunk(m0, b)
    IN IF r0[1] THEN [ok |-> TRUE, mt |-> r0[2], tables |-> ts]
       ELSE LET r1 == mtAddChunk(newMemTable(size), b)
            IN [ok |-> r1[1], mt |-> r1[2], tables |-> tsPrepend(ts, m0)]
\* Put up to the return of addChunk, which takes and releases nbs.mu; a
\* chunk that was not added is reported at once
Put(t, b) ==
    LET s == StoreOf(t)
        r == addChunk(mt[s], tables[s], b, mtSize[s])
        made == IF r.tables # tables[s] THEN {"Prepend"} ELSE {}
    IN /\ left > 0 /\ left' = left - 1
       /\ Idle(t) /\ muFree(s)
       /\ putCount[s] < MaxPuts
       /\ Len(r.tables.novel) <= MaxNovel
       /\ mt' = [mt EXCEPT ![s] = r.mt]
       /\ tables' = [tables EXCEPT ![s] = r.tables]
       /\ IF r.ok
          THEN /\ pc' = [pc EXCEPT ![t] = "pCount"]
               /\ arg' = [arg EXCEPT ![t] = [NoArg EXCEPT !.chunk = b, !.calls = made]]
               /\ UNCHANGED call
          ELSE /\ call' = [NoCall EXCEPT !.t = t, !.op = "Put", !.chunk = b,
                              !.err = errAddChunkFailed, !.calls = made]
               /\ UNCHANGED <<pc, arg>>
       /\ UNCHANGED <<manifest, cache, mmLock, upstream, putCount, extLeft, opens,
                      mtSize, rd, puts, stored, history>>
\* nbs.putCount++ after addChunk has released nbs.mu, and the return of nil
PutCount(t) ==
    LET s == StoreOf(t)
    IN /\ pc[t] = "pCount"
       /\ putCount' = [putCount EXCEPT ![s] = @ + 1]
       /\ puts' = [puts EXCEPT ![s] = @ \cup {arg[t].chunk}]
       /\ pc' = [pc EXCEPT ![t] = "idle"]
       /\ arg' = [arg EXCEPT ![t] = NoArg]
       /\ call' = [NoCall EXCEPT !.t = t, !.op = "Put", !.chunk = arg[t].chunk,
                      !.ok = TRUE, !.calls = arg[t].calls]
       /\ UNCHANGED <<manifest, cache, mmLock, mt, tables, upstream, extLeft, opens,
                      left, mtSize, rd, stored, history>>

\* ------------------------------------------------------------------ Rebase
\* a Rebase that rebases the tables and keeps the upstream contents it had
rebaseStoreKeepsUpstream(ts, up) ==
    LET f == mmFetch
    IN IF f.exists
       THEN [upstream |-> up, tables |-> tsRebase(ts, f.contents.specs)]
       ELSE [upstream |-> up, tables |-> ts]
\* the body of NomsBlockStore.Rebase on table set ts and upstream up
rebaseStore(ts, up) ==
    LET f == mmFetch
    IN IF f.exists
       THEN [upstream |-> f.contents, tables |-> tsRebase(ts, f.contents.specs)]
       ELSE [upstream |-> up, tables |-> ts]
Rebase(t) ==
    LET s == StoreOf(t)
        r == rebaseStore(tables[s], upstream[s])
    IN /\ left > 0 /\ left' = left - 1
       /\ Idle(t) /\ muFree(s)
       /\ cache' = mmFetch.cache
       /\ upstream' = [upstream EXCEPT ![s] = r.upstream]
       /\ tables' = [tables EXCEPT ![s] = r.tables]
       /\ call' = [NoCall EXCEPT !.t = t, !.op = "Rebase",
                      !.ok = TRUE, !.calls = {"Fetch"}]
       /\ UNCHANGED <<manifest, mmLock, mt, putCount, pc, arg, extLeft, opens,
                      mtSize, rd, puts, stored, history>>

\* a Commit that persists every memtable that holds a chunk before it takes
\* the manifest update lock
preflushAlways(m, ts) ==
    IF ~m.nil /\ mtCount(m) > 0
    THEN <<NilMT, tsPrepend(ts, m)>> ELSE <<m, ts>>
\* ------------------------------------------------------------------ Commit
\* a Commit that never takes the rebase-only path
anyPossiblyNovelChunksAlways(m, ts) == TRUE
\* anyPossiblyNovelChunks
anyPossiblyNovelChunks(m, ts) == ~m.nil \/ tsNovel(ts) > 0
\* Commit persists a memtable of more than preflushChunkCount chunks before
\* it takes the manifest update lock: <<memtable, table set>> afterwards
preflush(m, ts) ==
    IF ~m.nil /\ mtCount(m) > preflushChunkCount
    THEN <<NilMT, tsPrepend(ts, m)>> ELSE <<m, ts>>

\* a reconciliation that reports every lost update as a moved root
handleOptimisticLockFailureRoot(ts, up, last) ==
    [upstream |-> up, tables |-> tsRebase(ts, up.specs),
     err |-> errOptimisticLockFailedRoot]
\* a reconciliation that reports every lost update as a change of tables
handleOptimisticLockFailureTables(ts, up, last) ==
    [upstream |-> up, tables |-> tsRebase(ts, up.specs),
     err |-> errOptimisticLockFailedTables]
\* a reconciliation that reports no error when the root has moved
handleOptimisticLockFailureSilent(ts, up, last) ==
    [upstream |-> up, tables |-> tsRebase(ts, up.specs),
     err |-> IF last # up.root THEN "nil" ELSE errOptimisticLockFailedTables]
\* handleOptimisticLockFailure(upstream) on table set ts
handleOptimisticLockFailure(ts, up, last) ==
    [upstream |-> up, tables |-> tsRebase(ts, up.specs),
     err |-> IF last # up.root THEN errOptimisticLockFailedRoot
             ELSE errOptimisticLockFailedTables]
\* the contents a commit attempt offers to the manifest
newContents(current, specs) ==
    [lock |-> generateLockHash(current, specs), root |-> current, specs |-> specs]
\* a won Update that installs the new root over the specs the store had
installWonKeepsSpecs(nc, ts, up) ==
    [upstream |-> [nc EXCEPT !.specs = up.specs], tables |-> tsFlatten(ts)]
\* a won Update that forgets nbs.upstream = newContents
installWonKeepsUpstream(nc, ts, up) == [upstream |-> up, tables |-> tsFlatten(ts)]
\* the store after a won Update
installWon(nc, ts, up) == [upstream |-> nc, tables |-> tsFlatten(ts)]

\* the calls of a commit that can return an error, and the failure a run
\* injects into a call of Commit: the call that fails (at) and whether a
\* failing table-set or conjoin call hands back the zero value (zero) or
\* what it was given
FailSites == {"precount", "count", "Conjoin", "ToSpecs", "Update", "Rebase", "Flatten"}
NoFail == [at |-> "none", zero |-> FALSE]
Failures ==
    {NoFail} \cup [at : FailSites, zero : {FALSE}]
             \cup [at : {"Conjoin", "Rebase", "Flatten"}, zero : {TRUE}]
             \cup [at : {"Unlock"}, zero : {FALSE}]
\* the error a failing call returns
ioError(at) ==
    CASE at \in {"precount", "count"} -> "count failed"
      [] at = "Conjoin" -> "conjoin failed"
      [] at = "ToSpecs" -> "ToSpecs failed"
      [] at = "Update" -> "Update failed"
      [] at = "Rebase" -> "Rebase failed"
      [] at = "Unlock" -> "unlock failed"
      [] OTHER -> "Flatten failed"
\* what is assigned to nbs.tables from a table-set call that failed, and to
\* nbs.upstream from a conjoin that failed
failedTables(ts, fail) == IF fail.zero THEN newTableSet ELSE ts
failedContents(up, fail) == IF fail.zero THEN EmptyContents ELSE up
\* a reconciliation that installs the contents and leaves the tables alone
reconcileNoRebase(ts, up, last, fail) ==
    [handleOptimisticLockFailure(ts, up, last) EXCEPT !.tables = ts]
\* handleOptimisticLockFailure(upstream) whose table-set Rebase may fail
reconcile(ts, up, last, fail) ==
    IF fail.at = "Rebase"
    THEN [upstream |-> up, tables |-> failedTables(ts, fail), err |-> ioError("Rebase")]
    ELSE handleOptimisticLockFailure(ts, up, last)

\* a conjoin after which the attempt reports no error
conjoinAndRebaseNoError(ts, up, fail) ==
    LET c == Conjoin(up)
    IN [tables |-> tsRebase(ts, c.result.specs), upstream |-> c.result,
        manifest |-> c.manifest, cache |-> c.cache, err |-> "nil"]
\* the branch of updateManifest taken when conjoin is required: Conjoin on
\* nbs.upstream, Rebase of table set ts onto what it returns, and always an
\* error, errOptimisticLockFailedTables when both calls succeed
conjoinAndRebase(ts, up, fail) ==
    IF fail.at = "Conjoin"
    THEN [tables |-> ts, upstream |-> failedContents(up, fail),
          manifest |-> manifest, cache |-> cache, err |-> ioError("Conjoin")]
    ELSE LET c == Conjoin(up)
         IN [tables |-> IF fail.at = "Rebase" THEN failedTables(ts, fail)
                        ELSE tsRebase(ts, c.result.specs),
             upstream |-> c.result, manifest |-> c.manifest, cache |-> c.cache,
             err |-> IF fail.at = "Rebase" THEN ioError("Rebase")
                     ELSE errOptimisticLockFailedTables]

\* NomsBlockStore.updateManifest(current, last) on a store with memtable m,
\* table set ts and upstream up, with the failure fail injected: the store,
\* the manifest and the cache it leaves, the error it returns, the calls it
\* made
updateManifest(m, ts, up, current, last, fail) ==
    LET will == updateWillFail(up.lock)
        flush == ~m.nil /\ mtCount(m) > 0
        mt1 == IF flush THEN NilMT ELSE m
        ts1 == IF flush THEN tsPrepend(ts, m) ELSE ts
        pre == IF flush THEN {"updateWillFail", "Prepend"} ELSE {"updateWillFail"}
        same == [mt |-> m, tables |-> ts, upstream |-> up,
                 manifest |-> manifest, cache |-> cache, err |-> "nil",
                 calls |-> {}]
    IN IF up.root # last
       THEN [same EXCEPT !.err = errLastRootMismatch]
       ELSE IF will[2]
       THEN LET h == reconcile(ts, will[1], last, fail)
            IN [mt |-> m, tables |-> h.tables, upstream |-> h.upstream,
                manifest |-> manifest, cache |-> cache, err |-> h.err,
                calls |-> {"updateWillFail", "reconcile"}]
       ELSE IF ~m.nil /\ fail.at = "count"
       THEN [same EXCEPT !.err = ioError("count"), !.calls = {"updateWillFail"}]
       ELSE IF ConjoinRequired(ts1)
       THEN [mt |-> mt1, calls |-> pre \cup {"Conjoin"}]
                @@ conjoinAndRebase(ts1, up, fail)
       ELSE IF fail.at = "ToSpecs"
       THEN [mt |-> mt1, tables |-> ts1, upstream |-> up,
             manifest |-> manifest, cache |-> cache,
             err |-> ioError("ToSpecs"), calls |-> pre \cup {"ToSpecs"}]
       ELSE IF fail.at = "Update"
       THEN [mt |-> mt1, tables |-> ts1, upstream |-> up,
             manifest |-> manifest, cache |-> cache,
             err |-> ioError("Update"), calls |-> pre \cup {"ToSpecs", "Update"}]
       ELSE LET nc == newContents(current, tsToSpecs(ts1))
                u == mmUpdate(up.lock, nc)
            IN IF nc.lock # u.result.lock
               THEN LET h == reconcile(ts1, u.result, last, fail)
                    IN [mt |-> mt1, tables |-> h.tables, upstream |-> h.upstream,
                        manifest |-> u.manifest, cache |-> u.cache, err |-> h.err,
                        calls |-> pre \cup {"ToSpecs", "Update", "reconcile"}]
               ELSE LET w == installWon(nc, ts1, up)
                    IN [mt |-> mt1,
                        tables |-> IF fail.at = "Flatten"
                                   THEN failedTables(ts1, fail) ELSE w.tables,
                        upstream |-> w.upstream,
                        manifest |-> u.manifest, cache |-> u.cache, err |-> "nil",
                        calls |-> pre \cup {"ToSpecs", "Update", "Flatten"}
                                  \cup IF fail.at = "Flatten"
                                       THEN {"Flatten failed"} ELSE {}]

\* a loop that hands errLastRootMismatch to the caller as an error
CommitResultMismatchIsError(err) ==
    IF err = "nil" THEN [retry |-> FALSE, ok |-> TRUE, err |-> "nil"]
    ELSE IF err = errOptimisticLockFailedRoot
    THEN [retry |-> FALSE, ok |-> FALSE, err |-> "nil"]
    ELSE IF err # errOptimisticLockFailedTables
    THEN [retry |-> FALSE, ok |-> FALSE, err |-> err]
    ELSE [retry |-> TRUE, ok |-> FALSE, err |-> err]
\* a loop that goes round again on every error but a moved root
CommitResultRetriesAll(err) ==
    IF err = "nil" THEN [retry |-> FALSE, ok |-> TRUE, err |-> "nil"]
    ELSE IF err = errOptimisticLockFailedRoot \/ err = errLastRootMismatch
    THEN [retry |-> FALSE, ok |-> FALSE, err |-> "nil"]
    ELSE [retry |-> TRUE, ok |-> FALSE, err |-> err]
\* a loop that gives up on errOptimisticLockFailedTables
CommitResultNoRetry(err) ==
    IF err = "nil" THEN [retry |-> FALSE, ok |-> TRUE, err |-> "nil"]
    ELSE IF err = errOptimisticLockFailedRoot \/ err = errLastRootMismatch
              \/ err = errOptimisticLockFailedTables
    THEN [retry |-> FALSE, ok |-> FALSE, err |-> "nil"]
    ELSE [retry |-> FALSE, ok |-> FALSE, err |-> err]
\* the loop of Commit around updateManifest: what Commit does with its error
CommitResult(err) ==
    IF err = "nil" THEN [retry |-> FALSE, ok |-> TRUE, err |-> "nil"]
    ELSE IF err = errOptimisticLockFailedRoot \/ err = errLastRootMismatch
    THEN [retry |-> FALSE, ok |-> FALSE, err |-> "nil"]
    ELSE IF err # errOptimisticLockFailedTables
    THEN [retry |-> FALSE, ok |-> FALSE, err |-> err]
    ELSE [retry |-> TRUE, ok |-> FALSE, err |-> err]

\* the deferred closure of Commit: UnlockForUpdate, whose error becomes the
\* error Commit returns when it was about to return none
deferredUnlock(err, fail) ==
    IF fail.at = "Unlock" /\ err = "nil" THEN ioError("Unlock") ELSE err

\* the chunks a store holds outside its upstream tables: those of its
\* memtable and of its novel tables
novelChunks(m, ts) == Range(m.order) \cup UNION Range(ts.novel)
\* what a turn of the loop of Commit leaves: the outcome r of updateManifest
\* is installed, Commit returns (unlocking) or goes round again
\* (held: the chunks the store held as novel when Commit was called; lost:
\* what the earlier turns of this Commit lost on)
CommitTurn(t, r, current, last, before, held, lost, fail) ==
    \E o \in {r} :
    LET s == StoreOf(t)
        d == CommitResult(o.err)
    IN /\ mt' = [mt EXCEPT ![s] = o.mt]
       /\ tables' = [tables EXCEPT ![s] = o.tables]
       /\ upstream' = [upstream EXCEPT ![s] = o.upstream]
       /\ manifest' = o.manifest
       /\ stored' = storedWith(o.manifest)
       /\ history' = recorded(o.manifest)
       /\ cache' = o.cache
       /\ IF d.retry
          THEN /\ pc' = [pc EXCEPT ![t] = "cAttempt"]
               /\ mmLock' = t
               /\ arg' = [arg EXCEPT ![t] = [NoArg EXCEPT !.cur = current,
                              !.last = last, !.why = o.err,
                              !.calls = o.calls \cup before, !.held = held,
                              !.lost = lost \cup (o.calls \cap
                                  {"reconcile", "Conjoin"})]]
               /\ UNCHANGED call
          ELSE /\ pc' = [pc EXCEPT ![t] = "idle"]
               /\ mmLock' = "none"
               /\ arg' = [arg EXCEPT ![t] = NoArg]
               /\ call' = [NoCall EXCEPT !.t = t, !.op = "Commit",
                              !.cur = current, !.last = last, !.ok = d.ok,
                              !.err = deferredUnlock(d.err, fail), !.why = o.err,
                              !.calls = o.calls \cup before, !.held = held,
                              !.lost = lost]

\* Commit(current, last) up to the return of its first updateManifest, with
\* the failure fail injected.  With no novel chunks and current == last it
\* only rebases, and reports success unless the Rebase fails; a failing
\* count of the memtable ends it before it locks the manifest.
CommitWith(t, current, last, fail) ==
    LET s == StoreOf(t)
        fast == ~anyPossiblyNovelChunks(mt[s], tables[s]) /\ current = last
        rb == rebaseStore(tables[s], upstream[s])
        rbFails == fail.at = "Rebase" /\ manifest.exists
        p == preflush(mt[s], tables[s])
    IN /\ Idle(t) /\ muFree(s)
       /\ left > 0 /\ left' = left - 1
       /\ IF fast
          THEN /\ cache' = mmFetch.cache
               /\ upstream' = [upstream EXCEPT ![s] = rb.upstream]
               /\ tables' = [tables EXCEPT ![s] =
                                IF rbFails THEN failedTables(@, fail) ELSE rb.tables]
               /\ call' = [NoCall EXCEPT !.t = t, !.op = "Commit",
                              !.cur = current, !.last = last, !.ok = ~rbFails,
                              !.err = IF rbFails THEN ioError("Rebase") ELSE "nil",
                              !.calls = {"Fetch"}]
               /\ UNCHANGED <<manifest, mmLock, mt, pc, arg, stored, history>>
          ELSE IF fail.at = "precount" /\ ~mt[s].nil
          THEN /\ call' = [NoCall EXCEPT !.t = t, !.op = "Commit",
                              !.cur = current, !.last = last,
                              !.err = ioError("precount"),
                              !.why = ioError("precount"),
                              !.held = novelChunks(mt[s], tables[s])]
               /\ UNCHANGED <<manifest, cache, mmLock, mt, tables, upstream, pc,
                              arg, stored, history>>
          ELSE /\ mmLock = "none"
               /\ CommitTurn(t, updateManifest(p[1], p[2], upstream[s], current,
                                               last, fail),
                             current, last,
                             IF p[2] # tables[s] THEN {"preflush"} ELSE {},
                             novelChunks(mt[s], tables[s]), {}, fail)
       /\ UNCHANGED <<putCount, extLeft, opens, mtSize, rd, puts>>
\* Commit(current, last) none of whose calls fails
Commit(t, current, last) == CommitWith(t, current, last, NoFail)

\* a further turn of the loop after errOptimisticLockFailedTables, with the
\* failure fail injected
CommitRetryWith(t, fail) ==
    LET s == StoreOf(t)
    IN /\ pc[t] = "cAttempt" /\ muFree(s)
       /\ CommitTurn(t, updateManifest(mt[s], tables[s], upstream[s],
                                       arg[t].cur, arg[t].last, fail),
                     arg[t].cur, arg[t].last, {}, arg[t].held, arg[t].lost, fail)
       /\ UNCHANGED <<putCount, extLeft, opens, left, mtSize, rd, puts>>
\* a further turn none of whose calls fails
CommitRetry(t) == CommitRetryWith(t, NoFail)

\* ---------------------------------------------------------- UpdateManifest
RECURSIVE SetToSeq(_)
SetToSeq(S) == IF S = {} THEN <<>>
               ELSE LET x == CHOOSE y \in S : TRUE IN <<x>> \o SetToSeq(S \ {x})
\* an UpdateManifest that offers the updates in place of the fetched specs
appendUpdatesOnly(contents, updates) ==
    [contents EXCEPT !.specs = SetToSeq(updates)]
\* the contents UpdateManifest offers: the fetched specs and, appended, the
\* updates they do not name yet; the lock and the root are the fetched ones
appendUpdates(contents, updates) ==
    [contents EXCEPT !.specs = @ \o SetToSeq(updates \ Range(contents.specs))]
\* LockForUpdate, nbs.mu.Lock, Fetch; returns at once when nothing is to add
UpdateManifestFetch(t, updates) ==
    LET s == StoreOf(t)
        f == mmFetch
        fetched == IF f.exists THEN f.contents ELSE EmptyContents
        contents == appendUpdates(fetched, updates)
        addCount == Len(contents.specs) - Len(fetched.specs)
    IN /\ left > 0 /\ left' = left - 1
       /\ Idle(t) /\ muFree(s) /\ mmLock = "none"
       /\ cache' = f.cache
       /\ IF addCount = 0
          THEN /\ call' = [NoCall EXCEPT !.t = t, !.op = "UpdateManifest",
                              !.updates = updates, !.ok = TRUE,
                              !.calls = {"Fetch"}]
               /\ UNCHANGED <<pc, arg, mmLock>>
          ELSE /\ pc' = [pc EXCEPT ![t] = "uUpdate"]
               /\ arg' = [arg EXCEPT ![t] = [NoArg EXCEPT !.updates = updates,
                                                         !.contents = contents]]
               /\ mmLock' = t
               /\ UNCHANGED call
       /\ UNCHANGED <<manifest, mt, tables, upstream, putCount, extLeft, opens,
                      mtSize, rd, puts, stored, history>>

\* Update with the fetched lock, install what it returns, rebase the tables
\* onto the offered specs, unlock
UpdateManifestUpdate(t) ==
    LET s == StoreOf(t)
        contents == arg[t].contents
        u == mmUpdate(contents.lock, contents)
    IN /\ pc[t] = "uUpdate"
       /\ manifest' = u.manifest
       /\ stored' = storedWith(u.manifest)
       /\ history' = recorded(u.manifest)
       /\ cache' = u.cache
       /\ upstream' = [upstream EXCEPT ![s] = u.result]
       /\ tables' = [tables EXCEPT ![s] = tsRebase(@, contents.specs)]
       /\ arg' = [arg EXCEPT ![t] = NoArg]
       /\ mmLock' = "none"
       /\ pc' = [pc EXCEPT ![t] = "idle"]
       /\ call' = [NoCall EXCEPT !.t = t, !.op = "UpdateManifest",
                      !.updates = arg[t].updates, !.ok = TRUE,
                      !.calls = {"Fetch", "Update"}]
       /\ UNCHANGED <<mt, putCount, extLeft, opens, left, mtSize, rd, puts>>

\* ------------------------------------------------------- newNomsBlockStore
\* the instance of store s is dropped and a new one is opened on the manifest
Open(t) ==
    LET s == StoreOf(t)
        r == rebaseStore(newTableSet, EmptyContents)
    IN /\ left > 0 /\ left' = left - 1
       /\ \A u \in ThreadsOf(s) : Idle(u)
       /\ opens[s] < MaxOpens
       /\ opens' = [opens EXCEPT ![s] = @ + 1]
       /\ cache' = mmFetch.cache
       /\ mt' = [mt EXCEPT ![s] = NilMT]
       /\ tables' = [tables EXCEPT ![s] = r.tables]
       /\ upstream' = [upstream EXCEPT ![s] = r.upstream]
       /\ putCount' = [putCount EXCEPT ![s] = 0]
       /\ puts' = [puts EXCEPT ![s] = {}]
       /\ call' = [NoCall EXCEPT !.t = t, !.op = "Open",
                      !.ok = TRUE, !.calls = {"Fetch"}]
       /\ UNCHANGED <<manifest, mmLock, pc, arg, extLeft, mtSize, rd, stored, history>>

\* ------------------------------------------- a writer of another process
\* a store of another process, its view current, wins a commit: it moves the
\* root to r and may add one table of chunks the manifest does not hold
ExternalCommit(r, tbl) ==
    LET old == manifest.contents
        specs == IF tbl = {} THEN old.specs ELSE <<TableName(tbl)>> \o old.specs
        nc == newContents(r, specs)
    IN /\ left > 0 /\ left' = left - 1
       /\ extLeft > 0
       /\ tbl \cap UNION {OpenTable(n) : n \in specNames(old)} = {}
       /\ nc # old
       /\ manifest' = [exists |-> TRUE, contents |-> nc]
       /\ stored' = stored \cup specNames(nc)
       /\ history' = recorded([exists |-> TRUE, contents |-> nc])
       /\ extLeft' = extLeft - 1
       /\ call' = [NoCall EXCEPT !.t = "ext", !.op = "Commit",
                      !.cur = r, !.last = old.root, !.ok = TRUE]
       /\ UNCHANGED <<cache, mmLock, mt, tables, upstream, putCount, pc, arg, opens,
                      mtSize, rd, puts>>

\* ------------------------------------------------ the reading goroutine
\* Get, Has, GetMany and HasMany take the read side of nbs.mu, ask the
\* memtable, keep a reference to nbs.tables, release the lock and only then
\* ask the tables they kept.  A read leaves the store as it is.
storeVars == <<manifest, cache, mmLock, mt, tables, upstream, putCount, pc, arg,
               call, extLeft, opens, mtSize, puts, stored, history>>
\* the addresses a store can serve
Served(s) == {a \in Addrs : Has(s, a)}
\* toGetRecords, toHasRecords: the requests in the order of their addresses
RECURSIVE byPrefix(_)
byPrefix(S) ==
    IF S = {} THEN <<>>
    ELSE LET a == CHOOSE x \in S : \A y \in S : x <= y
         IN <<a>> \o byPrefix(S \ {a})
\* the one address a Get or a Has asks for
asked == CHOOSE h \in rd.hs : TRUE
\* the reader as it starts operation op on store s for the addresses hs
startRead(op, s, hs) ==
    [NoRead EXCEPT !.op = op, !.s = s, !.hs = hs, !.tables = tables[s],
                   !.had = Served(s), !.puts = puts[s]]

\* Get under the read lock
GetSnapshot(s, h) ==
    /\ left > 0 /\ left' = left - 1
    /\ rd.pc = "idle" /\ ~wLocked(s)
    /\ rd' = [startRead("Get", s, {h}) EXCEPT !.pc = "gLookup",
                                              !.data = mtGet(mt[s], h)]
    /\ UNCHANGED storeVars
\* Get after the lock: the data it took, else the tables it kept
GetLookup ==
    /\ rd.pc = "gLookup"
    /\ rd' = [rd EXCEPT !.pc = "idle",
                        !.chunk = getChunk(rd.data, rd.tables, asked)]
    /\ UNCHANGED <<storeVars, left>>

\* Has under the read lock
HasSnapshot(s, h) ==
    /\ left > 0 /\ left' = left - 1
    /\ rd.pc = "idle" /\ ~wLocked(s)
    /\ rd' = [startRead("Has", s, {h}) EXCEPT !.pc = "hLookup",
                                              !.has = ~mt[s].nil /\ mtHas(mt[s], h)]
    /\ UNCHANGED storeVars
\* Has after the lock
HasLookup ==
    /\ rd.pc = "hLookup"
    /\ rd' = [rd EXCEPT !.pc = "idle", !.has = hasChunk(rd.has, rd.tables, asked)]
    /\ UNCHANGED <<storeVars, left>>

\* memTable.getMany, memTable.hasMany: the requests the memtable serves
mtServes(m, hs) == IF m.nil THEN {} ELSE {a \in hs : mtHas(m, a)}
\* remaining: true with no memtable, else whether a request is unserved
mtRemaining(m, hs) == IF m.nil THEN TRUE ELSE mtServes(m, hs) # hs
\* the chunks of the addresses in sq, taken from the memtable m
mtChunks(m, sq) == [i \in 1..Len(sq) |-> mtGet(m, sq[i])]
\* tableSet.getMany, tableSet.hasMany: the requests not yet served that the
\* tables serve
tsServes(ts, hs, found) == {a \in hs \ found : tsHas(ts, a)}

\* GetMany under the read lock: the memtable sends its chunks to foundChunks
GetManySnapshot(s, hs) ==
    /\ left > 0 /\ left' = left - 1
    /\ rd.pc = "idle" /\ ~wLocked(s)
    /\ rd' = [startRead("GetMany", s, hs) EXCEPT
                 !.pc = "gmLocked",
                 !.found = mtServes(mt[s], hs),
                 !.remaining = mtRemaining(mt[s], hs),
                 !.sent = mtChunks(mt[s], byPrefix(mtServes(mt[s], hs)))]
    /\ UNCHANGED storeVars
\* GetMany releases the lock and, when requests remain, hands them to the
\* tables it kept, which start a read for every request they serve
GetManyDispatch ==
    /\ rd.pc = "gmLocked"
    /\ IF rd.remaining
       THEN rd' = [rd EXCEPT !.pc = "gmWait",
                            !.pending = tsServes(rd.tables, rd.hs, rd.found),
                            !.found = @ \cup tsServes(rd.tables, rd.hs, rd.found)]
       ELSE rd' = [rd EXCEPT !.pc = "idle"]
    /\ UNCHANGED <<storeVars, left>>
\* one of the reads ends and sends its chunk
GetManyRead(a) ==
    /\ rd.pc = "gmWait" /\ a \in rd.pending
    /\ rd' = [rd EXCEPT !.pending = @ \ {a},
                        !.sent = Append(@, tsGet(rd.tables, a))]
    /\ UNCHANGED <<storeVars, left>>
\* a GetMany that returns without waiting for its reads
wgNoWait(pending) == TRUE
\* wg.Wait(): every read that was started has ended
wgWait(pending) == pending = {}
GetManyReturn ==
    /\ rd.pc = "gmWait" /\ wgWait(rd.pending)
    /\ rd' = [rd EXCEPT !.pc = "idle"]
    /\ UNCHANGED <<storeVars, left>>

\* HasMany under the read lock
HasManySnapshot(s, hs) ==
    /\ left > 0 /\ left' = left - 1
    /\ rd.pc = "idle" /\ ~wLocked(s)
    /\ rd' = [startRead("HasMany", s, hs) EXCEPT
                 !.pc = "hmLookup",
                 !.found = mtServes(mt[s], hs),
                 !.remaining = mtRemaining(mt[s], hs)]
    /\ UNCHANGED storeVars
\* a HasMany that never asks the tables
hasManyAbsentMemtableOnly(found, remaining, ts, hs) == hs \ found
\* the absent set of HasMany: the requests that neither the memtable (found,
\* remaining) nor, when requests remain, the tables ts have
hasManyAbsent(found, remaining, ts, hs) ==
    IF remaining THEN hs \ (found \cup tsServes(ts, hs, found)) ELSE hs \ found
\* HasMany after the lock: the requests nobody has are the absent set
HasManyLookup ==
    /\ rd.pc = "hmLookup"
    /\ rd' = [rd EXCEPT !.pc = "idle",
                        !.absent = hasManyAbsent(rd.found, rd.remaining, rd.tables, rd.hs)]
    /\ UNCHANGED <<storeVars, left>>
\* NomsBlockStore.HasMany with no step of another goroutine between its
\* snapshot and its lookup
HasMany(s, hs) ==
    hasManyAbsent(mtServes(mt[s], hs), mtRemaining(mt[s], hs), tables[s], hs)

\* GetChunkLocations' f(css): every table in turn files the requests it
\* holds under its name and takes them out of hashes
RECURSIVE locate(_, _, _)
locate(css, hashes, ranges) ==
    IF css = <<>> THEN [hashes |-> hashes, ranges |-> ranges]
    ELSE LET hit == {a \in hashes : tableHas(Head(css), a)}
         IN locate(Tail(css), hashes \ hit,
                   ranges \cup {<<TableName(Head(css)), a>> : a \in hit})
\* the table keys f(css) leaves in the result beside the ones it had: a
\* mmapTableReader is entered when it holds a request, a chunkSourceAdapter
\* is entered always
tableKeys(css, ranges, adapter) ==
    {p[1] : p \in ranges}
        \cup (IF adapter THEN {TableName(css[i]) : i \in DOMAIN css} ELSE {})
\* GetChunkLocations reads nbs.tables.upstream, with no lock; the tables of
\* the store are mmapTableReaders or chunkSourceAdapters
GetChunkLocationsUpstream(s, hs) ==
    LET r == locate(tables[s].upstream, hs, {})
    IN /\ left > 0 /\ left' = left - 1
       /\ rd.pc = "idle"
       /\ \E adapter \in BOOLEAN :
             rd' = [startRead("GetChunkLocations", s, hs) EXCEPT
                       !.pc = "lNovel", !.pending = r.hashes, !.ranges = r.ranges,
                       !.adapter = adapter,
                       !.keys = tableKeys(tables[s].upstream, r.ranges, adapter)]
       /\ UNCHANGED storeVars
\* GetChunkLocations reads nbs.tables.novel, with no lock, and returns
GetChunkLocationsNovel ==
    LET r == locate(tables[rd.s].novel, rd.pending, rd.ranges)
    IN /\ rd.pc = "lNovel"
       /\ rd' = [rd EXCEPT !.pc = "idle", !.pending = {}, !.ranges = r.ranges,
                           !.keys = @ \cup tableKeys(tables[rd.s].novel, r.ranges,
                                                     rd.adapter)]
       /\ UNCHANGED <<storeVars, left>>

UpdateSets == {{TableName({b})} : b \in Bytes}

Next ==
    \/ \E t \in Threads, b \in Bytes : Put(t, b)
    \/ \E t \in Threads : PutCount(t)
    \/ \E t \in Threads : Rebase(t)
    \/ \E t \in Threads, current \in Roots, last \in Roots : Commit(t, current, last)
    \/ \E t \in Threads : CommitRetry(t)
    \/ \E t \in Threads, updates \in UpdateSets : UpdateManifestFetch(t, updates)
    \/ \E t \in Threads : UpdateManifestUpdate(t)
    \/ \E t \in Threads : Open(t)
    \/ \E r \in Roots, tbl \in {{}} \cup {{b} : b \in Bytes} : ExternalCommit(r, tbl)

Spec == Init /\ [][Next]_vars

\* One store, the thread that writes it, a goroutine that reads it and the
\* writer of the other process.  The runs start where thread a1 has opened
\* store A with memtables of 1..MemTableSize bytes and has called
\* UpdateManifest({TableName({1})}); the zero-length chunk is among the chunks
\* that are Put.
MuThreads == {"a1"}
MuContents == [EmptyContents EXCEPT !.specs = <<TableName({1})>>]
\* the state after that UpdateManifest, with budget calls still to start and
\* a memtable byte budget out of sizes
MuInit(budget, sizes) ==
    /\ manifest = [exists |-> TRUE, contents |-> MuContents]
    /\ cache = [hit |-> TRUE, contents |-> MuContents]
    /\ mmLock = "none"
    /\ mt = [s \in Stores |-> NilMT]
    /\ tables = [s \in Stores |->
                    [novel |-> <<>>, upstream |-> IF s = "A" THEN <<{1}>> ELSE <<>>]]
    /\ upstream = [s \in Stores |-> IF s = "A" THEN MuContents ELSE EmptyContents]
    /\ putCount = [s \in Stores |-> 0]
    /\ pc = [t \in Threads |-> "idle"]
    /\ arg = [t \in Threads |-> NoArg]
    /\ call = [NoCall EXCEPT !.t = "a1", !.op = "UpdateManifest", !.ok = TRUE,
                  !.updates = {TableName({1})}, !.calls = {"Fetch", "Update"}]
    /\ extLeft = MaxExt
    /\ opens = [s \in Stores |-> 0]
    /\ left = budget
    /\ \E size \in sizes : mtSize = [s \in Stores |-> size]
    /\ rd = NoRead
    /\ puts = [s \in Stores |-> {}]
    /\ stored = {TableName({1})}
    /\ history = Untracked
InitMu == MuInit(MaxOps - 1, 1..MemTableSize)
NextMu ==
    \/ \E t \in MuThreads, b \in Payloads : Put(t, b)
    \/ \E t \in MuThreads : PutCount(t)
    \/ \E t \in MuThreads : Rebase(t)
    \/ \E t \in MuThreads, current \in Roots, last \in Roots : Commit(t, current, last)
    \/ \E t \in MuThreads : CommitRetry(t)
    \/ \E t \in MuThreads, updates \in UpdateSets : UpdateManifestFetch(t, updates)
    \/ \E t \in MuThreads : UpdateManifestUpdate(t)
    \/ \E t \in MuThreads : Open(t)
    \/ \E r \in Roots, tbl \in {{}} \cup {{b} : b \in Bytes} : ExternalCommit(r, tbl)
    \/ \E t \in MuThreads, h \in Addrs : GetSnapshot(StoreOf(t), h)
    \/ GetLookup
    \/ \E t \in MuThreads, h \in Addrs : HasSnapshot(StoreOf(t), h)
    \/ HasLookup
    \/ \E t \in MuThreads, hs \in SUBSET Addrs : GetManySnapshot(StoreOf(t), hs)
    \/ GetManyDispatch
    \/ \E a \in Addrs : GetManyRead(a)
    \/ GetManyReturn
    \/ \E t \in MuThreads, hs \in SUBSET Addrs : HasManySnapshot(StoreOf(t), hs)
    \/ HasManyLookup
    \/ \E t \in MuThreads, hs \in SUBSET Addrs : GetChunkLocationsUpstream(StoreOf(t), hs)
    \/ GetChunkLocationsNovel
SpecMu == InitMu /\ [][NextMu]_vars

\* Put called by the second goroutine of store s, up to the return of
\* addChunk
PutBy2(s, b) ==
    LET r == addChunk(mt[s], tables[s], b, mtSize[s])
    IN /\ left > 0 /\ left' = left - 1
       /\ rd.pc = "idle" /\ muFree(s)
       /\ putCount[s] < MaxPuts
       /\ Len(r.tables.novel) <= MaxNovel
       /\ mt' = [mt EXCEPT ![s] = r.mt]
       /\ tables' = [tables EXCEPT ![s] = r.tables]
       /\ rd' = [startRead("Put", s, {H(b)}) EXCEPT
                    !.pc = IF r.ok THEN "pLoad" ELSE "idle", !.chunk = b]
       /\ UNCHANGED <<manifest, cache, mmLock, upstream, putCount, pc, arg, call,
                      extLeft, opens, mtSize, puts, stored, history>>
\* nbs.putCount++ by the second goroutine, which holds no lock: it loads the
\* counter
PutLoad2 ==
    /\ rd.pc = "pLoad"
    /\ rd' = [rd EXCEPT !.pc = "pStore", !.data = putCount[rd.s]]
    /\ UNCHANGED <<storeVars, left>>
\* and stores what it loaded plus one; Put returns nil
PutStore2 ==
    /\ rd.pc = "pStore"
    /\ putCount' = [putCount EXCEPT ![rd.s] = rd.data + 1]
    /\ puts' = [puts EXCEPT ![rd.s] = @ \cup {rd.chunk}]
    /\ rd' = [rd EXCEPT !.pc = "idle", !.has = TRUE]
    /\ UNCHANGED <<manifest, cache, mmLock, mt, tables, upstream, pc, arg, call,
                   extLeft, opens, left, mtSize, stored, history>>
\* One store on which two goroutines call Put, with memtables of
\* 1..MemTableSize bytes.
InitPut == MuInit(MaxOps, 1..MemTableSize)
NextPut ==
    \/ \E t \in MuThreads, b \in Payloads : Put(t, b)
    \/ \E t \in MuThreads : PutCount(t)
    \/ \E t \in MuThreads, b \in Payloads : PutBy2(StoreOf(t), b)
    \/ PutLoad2
    \/ PutStore2
SpecPut == InitPut /\ [][NextPut]_vars

\* ------------------------------------------------------- CalcReads, Count
\* tableSet.calcReads: every table in turn covers the requests it holds,
\* one read for each table that covers a request; remaining tells whether
\* a request is covered by no table
tsCalcReads(ts, hs) ==
    LET r == locate(ts.novel \o ts.upstream, hs, {})
    IN [reads |-> Cardinality({p[1] : p \in r.ranges}),
        covered |-> hs \ r.hashes,
        remaining |-> r.hashes # {}]
\* CalcReads takes nbs.tables under the read lock
CalcReadsSnapshot(s, hs) ==
    /\ left > 0 /\ left' = left - 1
    /\ rd.pc = "idle" /\ ~wLocked(s)
    /\ rd' = [startRead("CalcReads", s, hs) EXCEPT !.pc = "crCalc"]
    /\ UNCHANGED storeVars
\* CalcReads after the lock: the estimate of the tables it kept, or the
\* error when requests remain
CalcReadsReturn ==
    LET r == tsCalcReads(rd.tables, rd.hs)
    IN /\ rd.pc = "crCalc"
       /\ rd' = [rd EXCEPT !.pc = "idle", !.found = r.covered,
                           !.remaining = r.remaining,
                           !.data = IF r.remaining THEN 0 ELSE r.reads,
                           !.err = IF r.remaining THEN "failed to find all chunks"
                                   ELSE "nil"]
       /\ UNCHANGED <<storeVars, left>>
\* tableSet.count: the chunk counts of the tables, added up
RECURSIVE chunkCount(_)
chunkCount(css) ==
    IF css = <<>> THEN 0 ELSE Cardinality(Head(css)) + chunkCount(Tail(css))
tsCount(ts) == chunkCount(ts.novel) + chunkCount(ts.upstream)
\* Count under the read lock: the memtable's count and nbs.tables
CountSnapshot(s) ==
    /\ left > 0 /\ left' = left - 1
    /\ rd.pc = "idle" /\ ~wLocked(s)
    /\ rd' = [startRead("Count", s, {}) EXCEPT
                 !.pc = "cnTables",
                 !.data = IF mt[s].nil THEN 0 ELSE mtCount(mt[s])]
    /\ UNCHANGED storeVars
\* a Count that counts the tables the store has when it returns
CountReturnLiveTables ==
    /\ rd.pc = "cnTables"
    /\ rd' = [rd EXCEPT !.pc = "idle", !.data = @ + tsCount(tables[rd.s])]
    /\ UNCHANGED <<storeVars, left>>
\* Count after the lock: the count of the tables it kept is added
CountReturn ==
    /\ rd.pc = "cnTables"
    /\ rd' = [rd EXCEPT !.pc = "idle", !.data = @ + tsCount(rd.tables)]
    /\ UNCHANGED <<storeVars, left>>
\* One store, the thread that writes it and a goroutine that calls
\* CalcReads and Count
NextCount ==
    \/ \E t \in MuThreads, b \in Payloads : Put(t, b)
    \/ \E t \in MuThreads : PutCount(t)
    \/ \E t \in MuThreads, current \in Roots, last \in Roots : Commit(t, current, last)
    \/ \E t \in MuThreads : CommitRetry(t)
    \/ \E t \in MuThreads, hs \in SUBSET Addrs : CalcReadsSnapshot(StoreOf(t), hs)
    \/ CalcReadsReturn
    \/ \E t \in MuThreads : CountSnapshot(StoreOf(t))
    \/ CountReturn
SpecCount == InitPut /\ [][NextCount]_vars

\* One store and its thread, whose Commits meet calls that fail, and the
\* writer of the other process.
InitErr == MuInit(MaxOps, {MemTableSize})
NextErr ==
    \/ \E t \in MuThreads, b \in Bytes : Put(t, b)
    \/ \E t \in MuThreads : PutCount(t)
    \/ \E t \in MuThreads : Rebase(t)
    \/ \E t \in MuThreads, current \in Roots, last \in Roots, fail \in Failures :
          CommitWith(t, current, last, fail)
    \/ \E t \in MuThreads, fail \in Failures : CommitRetryWith(t, fail)
    \/ \E t \in MuThreads, updates \in UpdateSets : UpdateManifestFetch(t, updates)
    \/ \E t \in MuThreads : UpdateManifestUpdate(t)
    \/ \E r \in Roots, tbl \in {{}} \cup {{b} : b \in Bytes} : ExternalCommit(r, tbl)
SpecErr == InitErr /\ [][NextErr]_vars

\* Commit in two steps, for the runs in which a thread waits for the
\* manifest update lock.  CommitEnter is Commit(current, last) up to
\* LockForUpdate when it does not take the rebase-only path: under nbs.mu a
\* memtable of more than preflushChunkCount chunks is moved into the novel
\* tables.
CommitEnter(t, current, last) ==
    LET s == StoreOf(t)
        p == preflush(mt[s], tables[s])
    IN /\ left > 0 /\ left' = left - 1
       /\ Idle(t) /\ muFree(s)
       /\ anyPossiblyNovelChunks(mt[s], tables[s]) \/ current # last
       /\ mt' = [mt EXCEPT ![s] = p[1]]
       /\ tables' = [tables EXCEPT ![s] = p[2]]
       /\ pc' = [pc EXCEPT ![t] = "cLock"]
       /\ arg' = [arg EXCEPT ![t] = [NoArg EXCEPT !.cur = current, !.last = last,
                      !.calls = IF p[2] # tables[s] THEN {"preflush"} ELSE {},
                      !.held = novelChunks(mt[s], tables[s])]]
       /\ UNCHANGED <<manifest, cache, mmLock, upstream, putCount, call, extLeft,
                      opens, mtSize, rd, puts, stored, history>>
\* LockForUpdate returns once no other thread holds the manifest update
\* lock; the first updateManifest of the loop follows
CommitLocked(t) ==
    LET s == StoreOf(t)
    IN /\ pc[t] = "cLock" /\ mmLock = "none" /\ muFree(s)
       /\ CommitTurn(t, updateManifest(mt[s], tables[s], upstream[s],
                                       arg[t].cur, arg[t].last, NoFail),
                     arg[t].cur, arg[t].last, arg[t].calls, arg[t].held, {},
                     NoFail)
       /\ UNCHANGED <<putCount, extLeft, opens, left, mtSize, rd, puts>>
\* the runs start where store A has accepted no chunk, chunk 1, or chunks 1
\* and 2, which its memtable holds
PreOrders == {<<>>, <<1>>, <<1, 2>>}
InitPre ==
    /\ manifest = [exists |-> FALSE, contents |-> EmptyContents]
    /\ cache = [hit |-> TRUE, contents |-> EmptyContents]
    /\ mmLock = "none"
    /\ \E order \in PreOrders :
          /\ mt = [s \in Stores |->
                      IF s = "A" /\ order # <<>>
                      THEN [newMemTable(MemTableSize) EXCEPT !.order = order]
                      ELSE NilMT]
          /\ putCount = [s \in Stores |-> IF s = "A" THEN Len(order) ELSE 0]
          /\ puts = [s \in Stores |-> IF s = "A" THEN Range(order) ELSE {}]
    /\ tables = [s \in Stores |-> newTableSet]
    /\ upstream = [s \in Stores |-> EmptyContents]
    /\ pc = [t \in Threads |-> "idle"]
    /\ arg = [t \in Threads |-> NoArg]
    /\ call = NoCall
    /\ extLeft = MaxExt
    /\ opens = [s \in Stores |-> 0]
    /\ left = MaxOps - 1
    /\ mtSize = [s \in Stores |-> MemTableSize]
    /\ rd = NoRead
    /\ stored = {}
    /\ history = Untracked
NextPre ==
    \/ \E t \in Threads, b \in Bytes : Put(t, b)
    \/ \E t \in Threads : PutCount(t)
    \/ \E t \in Threads, current \in Roots, last \in Roots : CommitEnter(t, current, last)
    \/ \E t \in Threads : CommitLocked(t)
    \/ \E t \in Threads : CommitRetry(t)
    \/ \E t \in Threads, updates \in UpdateSets : UpdateManifestFetch(t, updates)
    \/ \E t \in Threads : UpdateManifestUpdate(t)
    \/ \E r \in Roots, tbl \in {{}} \cup {{b} : b \in Bytes} : ExternalCommit(r, tbl)
SpecPre == InitPre /\ [][NextPre]_vars

\* The runs in which every lock is taken in a step of its own, so that a
\* thread can hold the manifest update lock while it waits for nbs.mu.
\* a LockForUpdate that does not wait for the thread that holds the lock
CommitLockNoWait(t) ==
    /\ pc[t] = "cLock"
    /\ mmLock' = t
    /\ pc' = [pc EXCEPT ![t] = "cFirst"]
    /\ UNCHANGED <<manifest, cache, mt, tables, upstream, putCount, arg, call,
                   extLeft, opens, left, mtSize, rd, puts, stored, history>>
\* LockForUpdate of Commit returns once no thread holds the update lock
CommitLock(t) ==
    /\ pc[t] = "cLock" /\ mmLock = "none"
    /\ mmLock' = t
    /\ pc' = [pc EXCEPT ![t] = "cFirst"]
    /\ UNCHANGED <<manifest, cache, mt, tables, upstream, putCount, arg, call,
                   extLeft, opens, left, mtSize, rd, puts, stored, history>>
\* the first updateManifest of the loop, which takes nbs.mu while the
\* thread holds the update lock
CommitFirst(t) ==
    LET s == StoreOf(t)
    IN /\ pc[t] = "cFirst" /\ muFree(s)
       /\ CommitTurn(t, updateManifest(mt[s], tables[s], upstream[s],
                                       arg[t].cur, arg[t].last, NoFail),
                     arg[t].cur, arg[t].last, arg[t].calls, arg[t].held, {},
                     NoFail)
       /\ UNCHANGED <<putCount, extLeft, opens, left, mtSize, rd, puts>>
\* LockForUpdate of UpdateManifest(updates)
UpdateManifestEnter(t, updates) ==
    /\ left > 0 /\ left' = left - 1
    /\ Idle(t) /\ mmLock = "none"
    /\ mmLock' = t
    /\ pc' = [pc EXCEPT ![t] = "uLock"]
    /\ arg' = [arg EXCEPT ![t] = [NoArg EXCEPT !.updates = updates]]
    /\ UNCHANGED <<manifest, cache, mt, tables, upstream, putCount, call,
                   extLeft, opens, mtSize, rd, puts, stored, history>>
\* nbs.mu.Lock and Fetch of UpdateManifest under the update lock; both
\* locks are released at once when nothing is to add
UpdateManifestLocked(t) ==
    LET s == StoreOf(t)
        f == mmFetch
        fetched == IF f.exists THEN f.contents ELSE EmptyContents
        contents == appendUpdates(fetched, arg[t].updates)
        addCount == Len(contents.specs) - Len(fetched.specs)
    IN /\ pc[t] = "uLock" /\ muFree(s)
       /\ cache' = f.cache
       /\ IF addCount = 0
          THEN /\ call' = [NoCall EXCEPT !.t = t, !.op = "UpdateManifest",
                              !.updates = arg[t].updates, !.ok = TRUE,
                              !.calls = {"Fetch"}]
               /\ pc' = [pc EXCEPT ![t] = "idle"]
               /\ arg' = [arg EXCEPT ![t] = NoArg]
               /\ mmLock' = "none"
          ELSE /\ pc' = [pc EXCEPT ![t] = "uUpdate"]
               /\ arg' = [arg EXCEPT ![t].contents = contents]
               /\ UNCHANGED <<call, mmLock>>
       /\ UNCHANGED <<manifest, mt, tables, upstream, putCount, extLeft, opens,
                      left, mtSize, rd, puts, stored, history>>
\* the steps of the calls that are under way
LockSteps ==
    \/ \E t \in Threads : PutCount(t)
    \/ \E t \in Threads : CommitLock(t)
    \/ \E t \in Threads : CommitFirst(t)
    \/ \E t \in Threads : CommitRetry(t)
    \/ \E t \in Threads : UpdateManifestLocked(t)
    \/ \E t \in Threads : UpdateManifestUpdate(t)
    \/ GetLookup
    \/ HasLookup
    \/ GetManyDispatch
    \/ \E a \in Addrs : GetManyRead(a)
    \/ GetManyReturn
    \/ HasManyLookup
NextLock ==
    \/ \E t \in Threads : Put(t, 1)
    \/ \E t \in Threads : Rebase(t)
    \/ \E t \in Threads, current \in Roots, last \in Roots : CommitEnter(t, current, last)
    \/ \E t \in Threads, updates \in UpdateSets : UpdateManifestEnter(t, updates)
    \/ \E s \in Stores : GetSnapshot(s, H(1))
    \/ \E s \in Stores : HasSnapshot(s, H(1))
    \/ \E s \in Stores : GetManySnapshot(s, {H(1)})
    \/ \E s \in Stores : HasManySnapshot(s, {H(1)})
    \/ LockSteps
SpecLock == Init /\ [][NextLock]_vars

\* The runs of Spec in which the contents the manifest holds are recorded
\* from the start.
InitHist ==
    /\ manifest = [exists |-> FALSE, contents |-> EmptyContents]
    /\ cache = [hit |-> TRUE, contents |-> EmptyContents]
    /\ mmLock = "none"
    /\ mt = [s \in Stores |-> NilMT]
    /\ tables = [s \in Stores |-> newTableSet]
    /\ upstream = [s \in Stores |-> EmptyContents]
    /\ putCount = [s \in Stores |-> 0]
    /\ pc = [t \in Threads |-> "idle"]
    /\ arg = [t \in Threads |-> NoArg]
    /\ call = NoCall
    /\ extLeft = MaxExt
    /\ opens = [s \in Stores |-> 0]
    /\ left = MaxOps
    /\ mtSize = [s \in Stores |-> MemTableSize]
    /\ rd = NoRead
    /\ puts = [s \in Stores |-> {}]
    /\ stored = {}
    /\ history = [on |-> TRUE, seen |-> {}]
SpecHist == InitHist /\ [][Next]_vars

\* The runs that continue a run of Spec from the state it reaches by
\*   a1: UpdateManifest({TableName({1})})   (creates the manifest, zero lock)
\*   b1: Put(2); Commit(0, 0)               (B's zero lock matches: B wins)
\* where the manifest no longer names the table in A's view of it.
StaleContents == newContents(ZeroRoot, <<TableName({2})>>)
InitStale ==
    /\ manifest = [exists |-> TRUE, contents |-> StaleContents]
    /\ cache = [hit |-> TRUE, contents |-> StaleContents]
    /\ mmLock = "none"
    /\ mt = [s \in Stores |-> NilMT]
    /\ tables = [s \in Stores |->
                    [novel |-> <<>>,
                     upstream |-> IF s = "A" THEN <<{1}>> ELSE <<{2}>>]]
    /\ upstream = [s \in Stores |->
                      IF s = "A"
                      THEN [EmptyContents EXCEPT !.specs = <<TableName({1})>>]
                      ELSE StaleContents]
    /\ putCount = [s \in Stores |-> IF s = "A" THEN 0 ELSE 1]
    /\ pc = [t \in Threads |-> "idle"]
    /\ arg = [t \in Threads |-> NoArg]
    /\ call = [NoCall EXCEPT !.t = "b1", !.op = "Commit", !.ok = TRUE,
                  !.held = {2},
                  !.calls = {"updateWillFail", "Prepend", "ToSpecs", "Update",
                             "Flatten"}]
    /\ extLeft = MaxExt
    /\ opens = [s \in Stores |-> 0]
    /\ left = MaxOps + 1
    /\ mtSize = [s \in Stores |-> MemTableSize]
    /\ rd = NoRead
    /\ puts = [s \in Stores |-> IF s = "A" THEN {} ELSE {2}]
    /\ stored = {TableName({1}), TableName({2})}
    /\ history = Untracked
SpecStale == InitStale /\ [][Next]_vars
\* InitStale but for the calls that may still be started
StaleState ==
    /\ manifest = [exists |-> TRUE, contents |-> StaleContents]
    /\ cache = [hit |-> TRUE, contents |-> StaleContents]
    /\ mmLock = "none"
    /\ mt = [s \in Stores |-> NilMT]
    /\ tables["A"] = [novel |-> <<>>, upstream |-> <<{1}>>]
    /\ tables["B"] = [novel |-> <<>>, upstream |-> <<{2}>>]
    /\ upstream["A"] = [EmptyContents EXCEPT !.specs = <<TableName({1})>>]
    /\ upstream["B"] = StaleContents
    /\ putCount = [s \in Stores |-> IF s = "A" THEN 0 ELSE 1]
    /\ \A t \in Threads : pc[t] = "idle" /\ arg[t] = NoArg
    /\ call = [NoCall EXCEPT !.t = "b1", !.op = "Commit", !.ok = TRUE,
                  !.held = {2},
                  !.calls = {"updateWillFail", "Prepend", "ToSpecs", "Update",
                             "Flatten"}]
    /\ extLeft = MaxExt
    /\ opens = [s \in Stores |-> 0]
    /\ mtSize = [s \in Stores |-> MemTableSize]
    /\ rd = NoRead
    /\ puts = [s \in Stores |-> IF s = "A" THEN {} ELSE {2}]
    /\ stored = {TableName({1}), TableName({2})}

TypeOK ==
    /\ manifest.exists \in BOOLEAN
    /\ mmLock \in Threads \cup {"none"}
    /\ \A s \in Stores : putCount[s] \in 0..MaxPuts
    /\ \A t \in Threads : pc[t] \in {"idle", "pCount", "cAttempt", "uUpdate"}

\* ---------------------------------------------------------------- properties
\* the arguments of the Commit of t that took a turn in this step: a turn
\* leaves them in call when Commit returns, in arg[t] when it goes round again
TurnArgs(t) == IF pc'[t] = "cAttempt" THEN arg'[t] ELSE call'
\* this step may be a turn of a Commit of t: t returned from Commit or waits
\* for another turn
MayBeTurn(t) ==
    pc'[t] = "cAttempt" \/ (call'.op = "Commit" /\ call'.t = t /\ pc'[t] = "idle")
\* a step of Commit by thread t: its first turn or a further turn of its loop
CommitStep(t) ==
    /\ MayBeTurn(t)
    /\ Commit(t, TurnArgs(t).cur, TurnArgs(t).last) \/ CommitRetry(t)
\* the first turn of a Commit(c, l) that runs updateManifest (not the
\* rebase-only path)
FirstAttempt(t, c, l) ==
    /\ MayBeTurn(t) /\ pc[t] = "idle"
    /\ TurnArgs(t).cur = c /\ TurnArgs(t).last = l
    /\ ~(~anyPossiblyNovelChunks(mt[StoreOf(t)], tables[StoreOf(t)]) /\ c = l)
    /\ Commit(t, c, l)
\* a further turn of the loop of the Commit of t
LaterAttempt(t) == pc[t] = "cAttempt" /\ CommitRetry(t)
\* Commit by t has returned (false, nil) in this step
ReturnsFalseNil(t) ==
    /\ pc'[t] = "idle"
    /\ call'.t = t /\ call'.op = "Commit" /\ ~call'.ok /\ call'.err = "nil"
\* the calls the turn of t taken in this step made
TurnCalls(t) == IF pc'[t] = "cAttempt" THEN arg'[t].calls ELSE call'.calls
\* the most recent call to return is a Commit of a store that returned (true, nil)
CommitReturnedTrue == call.op = "Commit" /\ call.t \in Threads /\ call.ok /\ call.err = "nil"

\* C1 as stated: once Commit(current, last) has returned (true, nil), Root() of
\* that store is current
C1_RootIsCurrentAfterCommit ==
    CommitReturnedTrue => Root(StoreOf(call.t)) = call.cur
\* C1 amended: once Commit(current, last) has returned (true, nil) after winning
\* the manifest Update, Root() of that store is current; a Commit that only
\* rebased leaves Root() at the root the manifest holds; and the upstream of a
\* store changes only in a step of Commit, Rebase, UpdateManifest or a
\* reopening of that store
C1_RootIsCurrentAfterWonCommit ==
    [][/\ (CommitReturnedTrue /\ "Update" \in call.calls
              => Root(StoreOf(call.t)) = call.cur)'
       /\ (CommitReturnedTrue /\ "Fetch" \in call.calls /\ manifest.exists
              => Root(StoreOf(call.t)) = manifest.contents.root)'
       /\ \A s \in Stores : upstream'[s] # upstream[s] =>
              \E t \in ThreadsOf(s) :
                  CommitStep(t) \/ Rebase(t) \/ UpdateManifestUpdate(t) \/ Open(t)]_vars
\* a Commit that moved the root has returned (true, nil)
C1_Witness ==
    /\ CommitReturnedTrue /\ "Update" \in call.calls
    /\ call.cur # call.last /\ Root(StoreOf(call.t)) = call.cur

\* thread t returns from Commit in this step and the call that returned last
\* before it was a Commit of the other store with the same last: two
\* concurrent Commits, in the order in which they took the update lock
SecondOfTwoCommits(t) ==
    /\ call.op = "Commit" /\ call.t \in Threads \ {t}
    /\ pc'[t] = "idle" /\ call'.op = "Commit" /\ call'.t = t
    /\ call'.last = call.last
    /\ CommitStep(t)
\* C2 as stated: of two concurrent Commits of one process with the same last
\* exactly one returns (true, nil) and the other returns (false, nil)
C2_ExactlyOneCommitWins ==
    [][\A t \in Threads : SecondOfTwoCommits(t) =>
          /\ call.ok # call'.ok
          /\ call.err = "nil" /\ call'.err = "nil"]_vars
\* C2 amended: of two concurrent Commits of one process with the same last,
\* both with current # last, at most one returns (true, nil), and each one
\* that does not returns (false, nil)
C2_AtMostOneCommitWins ==
    [][\A t \in Threads :
          SecondOfTwoCommits(t) /\ call.cur # call.last /\ call'.cur # call'.last =>
              /\ ~(call.ok /\ call'.ok)
              /\ ~call.ok => call.err = "nil"
              /\ ~call'.ok => call'.err = "nil"]_vars
\* two calls were started, no other process wrote: the Commit of one store
\* moved the root away from last, then the Commit of the other store with the
\* same last returned (false, nil)
C2_Witness ==
    /\ left = MaxOps - 2 /\ extLeft = MaxExt
    /\ call.op = "Commit" /\ call.t \in Threads /\ ~call.ok /\ call.err = "nil"
    /\ call.cur # call.last
    /\ call.why = errOptimisticLockFailedRoot
    /\ \E u \in Threads \ {call.t} :
          /\ manifest.exists /\ upstream[StoreOf(u)] = manifest.contents
          /\ Root(StoreOf(u)) # call.last

\* C3: every chunk that was Put on a store and covered by a Commit that
\* returned (true, nil) can be read back from that store with its bytes; here
\* for the chunks the store held as novel when that Commit was called, in the
\* state in which the Commit returns
C3_CommittedChunksReadBack ==
    CommitReturnedTrue =>
        \A b \in call.held : Get(StoreOf(call.t), H(b)) = b

\* C4: in every reachable state the lock of the stored manifest is
\* generateLockHash of the root and the specs stored with it
C4_LockIsHashOfRootAndSpecs ==
    manifest.exists =>
        manifest.contents.lock =
            generateLockHash(manifest.contents.root, manifest.contents.specs)

\* C5: a table spec of the manifest leaves it only in a conjoin: every other
\* step keeps every spec the manifest named
C5_SpecsLeaveOnlyByConjoin ==
    [][\/ specNames(manifest.contents) \subseteq specNames(manifest'.contents)
       \/ \E t \in Threads : CommitStep(t) /\ "Conjoin" \in TurnCalls(t)]_vars

\* C6: a commit attempt that reconciles with contents (the Update's result or
\* the cached manifest) whose root is not last makes Commit return
\* (false, nil) in that turn, without another turn of the loop
C6_RootMovedReturnsFalse ==
    [][\A t \in Threads :
          /\ \A c \in Roots, l \in Roots :
                FirstAttempt(t, c, l) /\ "reconcile" \in TurnCalls(t)
                    /\ upstream'[StoreOf(t)].root # l => ReturnsFalseNil(t)
          /\ LaterAttempt(t) /\ "reconcile" \in TurnCalls(t)
                /\ upstream'[StoreOf(t)].root # arg[t].last => ReturnsFalseNil(t)]_vars
\* a Commit has returned (false, nil) because the Update's result had another root
C6_Witness ==
    /\ call.op = "Commit" /\ call.t \in Threads /\ ~call.ok /\ call.err = "nil"
    /\ call.why = errOptimisticLockFailedRoot
    /\ {"Update", "reconcile"} \subseteq call.calls
    /\ Root(StoreOf(call.t)) # call.last

\* C7: a commit attempt that starts with last different from the store's
\* upstream root makes Commit return (false, nil) without calling the
\* manifest Update and leaves the manifest and that upstream as they were
C7_LastRootMismatch ==
    [][\A t \in Threads :
          LET post == /\ ReturnsFalseNil(t)
                      /\ "Update" \notin call'.calls /\ "Conjoin" \notin call'.calls
                      /\ manifest' = manifest
                      /\ upstream'[StoreOf(t)] = upstream[StoreOf(t)]
          IN /\ \A c \in Roots, l \in Roots :
                    FirstAttempt(t, c, l) /\ upstream[StoreOf(t)].root # l => post
             /\ LaterAttempt(t) /\ upstream[StoreOf(t)].root # arg[t].last => post]_vars
\* a Commit with novel chunks has returned (false, nil) on errLastRootMismatch
C7_Witness ==
    /\ call.op = "Commit" /\ call.t \in Threads /\ ~call.ok /\ call.err = "nil"
    /\ call.why = errLastRootMismatch
    /\ Root(StoreOf(call.t)) # call.last
    /\ anyPossiblyNovelChunks(mt[StoreOf(call.t)], tables[StoreOf(call.t)])

\* The runs of at most MaxOps - 1 calls in which the goroutine inside the
\* loop of Commit keeps running: a turn that can be taken is taken.
InitLive ==
    /\ manifest = [exists |-> FALSE, contents |-> EmptyContents]
    /\ cache = [hit |-> TRUE, contents |-> EmptyContents]
    /\ mmLock = "none"
    /\ mt = [s \in Stores |-> NilMT]
    /\ tables = [s \in Stores |-> newTableSet]
    /\ upstream = [s \in Stores |-> EmptyContents]
    /\ putCount = [s \in Stores |-> 0]
    /\ pc = [t \in Threads |-> "idle"]
    /\ arg = [t \in Threads |-> NoArg]
    /\ call = NoCall
    /\ extLeft = MaxExt
    /\ opens = [s \in Stores |-> 0]
    /\ left = MaxOps - 1
    /\ mtSize = [s \in Stores |-> MemTableSize]
    /\ rd = NoRead
    /\ puts = [s \in Stores |-> {}]
    /\ stored = {}
    /\ history = Untracked
SpecLive == InitLive /\ [][Next]_vars /\ \A t \in Threads : WF_vars(CommitRetry(t))
\* C8: a Commit that lost a turn on tables (errOptimisticLockFailedTables)
\* takes further turns and eventually returns, with (true, nil) unless the
\* root has moved away from last; and a Commit returns false only then
C8_TablesConflictRetriesUntilWon ==
    /\ \A t \in Threads :
          pc[t] = "cAttempt" ~>
              /\ pc[t] = "idle"
              /\ call.op = "Commit" /\ call.t = t /\ call.err = "nil"
              /\ call.ok \/ Root(StoreOf(t)) # call.last
    /\ [](call.op = "Commit" /\ call.t \in Threads /\ ~call.ok
             => Root(StoreOf(call.t)) # call.last)
\* a Commit that lost the manifest Update to a writer of another process that
\* kept the root has returned (true, nil)
C8_Witness ==
    /\ CommitReturnedTrue /\ "reconcile" \in call.lost
    /\ {"Update", "Flatten"} \subseteq call.calls
    /\ extLeft < MaxExt
    /\ Root(StoreOf(call.t)) = call.cur

\* C9: after the Commit(current, last) of one store has returned (true, nil),
\* another store on the same manifest that calls Rebase next has current as
\* its Root() and Has every chunk that Commit covered; here for the Commits
\* that went through the manifest Update
C9_RebaseSeesCommit ==
    [][\A t \in Threads :
          /\ CommitReturnedTrue /\ "Update" \in call.calls /\ call.t # t
          /\ call'.op = "Rebase" /\ call'.t = t /\ Rebase(t)
          => /\ Root(StoreOf(t))' = call.cur
             /\ \A b \in call.held : Has(StoreOf(t), H(b))']_vars

\* C10: a store opened after a Commit(newRoot, zero) that returned (true, nil)
\* has newRoot as its Root(), Has and Gets every chunk that Commit covered;
\* a store opened where no manifest exists has the zero root and no tables;
\* here for the Commits that went through the manifest Update
C10_OpenSeesCommit ==
    [][\A t \in Threads :
          call'.op = "Open" /\ call'.t = t /\ Open(t) =>
             /\ CommitReturnedTrue /\ "Update" \in call.calls
                    /\ call.last = ZeroRoot /\ call.cur # ZeroRoot
                => /\ Root(StoreOf(t))' = call.cur
                   /\ \A b \in call.held :
                         /\ Has(StoreOf(t), H(b))'
                         /\ Get(StoreOf(t), H(b))' = b
             /\ ~manifest.exists
                => /\ Root(StoreOf(t))' = ZeroRoot
                   /\ tables'[StoreOf(t)] = newTableSet]_vars

\* the reading goroutine has returned from operation op
ReadReturned(op) == rd.pc = "idle" /\ rd.op = op
\* the read that returned last found the chunk of address a
ReadFound(a) ==
    \/ rd.op = "Get" /\ a \in rd.hs /\ H(rd.chunk) = a
    \/ rd.op = "Has" /\ a \in rd.hs /\ rd.has
    \/ rd.op = "GetMany" /\ \E i \in 1..Len(rd.sent) : H(rd.sent[i]) = a
    \/ rd.op = "HasMany" /\ a \in rd.hs \ rd.absent

\* C11: after Put(c) has returned nil on a store, every Get, Has, GetMany and
\* HasMany for c's address that starts afterwards on that store finds the
\* chunk: a read with no step between its snapshot and its lookup finds it
\* in every state, and a read of the reading goroutine finds it whatever the
\* store's thread did between the read's snapshot and its lookup
C11_ReadsFindPutChunks ==
    /\ \A s \in Stores : \A b \in puts[s] : Has(s, H(b)) /\ Get(s, H(b)) = b
    /\ rd.pc = "idle" /\ rd.op \in {"Get", "Has", "GetMany", "HasMany"} =>
          \A b \in rd.puts : H(b) \in rd.hs => ReadFound(H(b))

\* C12 (as stated): a Get that has returned holds a non-empty chunk exactly
\* when the address it asked for was in the memtable, a novel table or an
\* upstream table when Get took its snapshot under the read lock, and holds
\* the empty chunk for an address in none of them.
C12_GetNonEmptyIffPresent ==
    ReadReturned("Get") =>
        /\ rd.chunk # EmptyChunk <=> asked \in rd.had
        /\ asked \notin rd.had => rd.chunk = EmptyChunk
\* C12 (amended): for every address but that of the zero-length chunk, a Get
\* that has returned holds the chunk of that address when the address was in
\* the memtable, a novel table or an upstream table at the snapshot, and the
\* empty chunk otherwise; for the address of the zero-length chunk it holds
\* the empty chunk whether the chunk was stored or not.
C12_GetFindsSnapshotChunk ==
    ReadReturned("Get") =>
        IF asked \in rd.had /\ asked # H(EmptyChunk)
        THEN rd.chunk # EmptyChunk /\ H(rd.chunk) = asked
        ELSE rd.chunk = EmptyChunk
\* a Get found a chunk in the tables it kept, and the store's table set is no
\* longer the one it kept
C12_Witness ==
    /\ ReadReturned("Get") /\ rd.chunk # EmptyChunk /\ rd.data = Nil
    /\ rd.tables # tables[rd.s]

\* C13: on a store that no call is changing and that holds what it held when
\* GetMany(S) took its snapshot, the absent set HasMany(S) returns and the
\* addresses of the chunks GetMany(S) delivered are disjoint and together
\* make up S.
C13_HasManyComplementsGetMany ==
    /\ ReadReturned("GetMany")
    /\ \A t \in ThreadsOf(rd.s) : Idle(t)
    /\ rd.tables = tables[rd.s] /\ rd.had = Served(rd.s)
    => LET delivered == {H(rd.sent[i]) : i \in 1..Len(rd.sent)}
           absent == HasMany(rd.s, rd.hs)
       IN delivered \cap absent = {} /\ delivered \cup absent = rd.hs
\* GetMany delivered a chunk and left an address out, on a store whose last
\* call was a Commit that returned true, with no memtable and no novel table,
\* whose tables the manifest names
C13_Witness ==
    /\ ReadReturned("GetMany")
    /\ \A t \in ThreadsOf(rd.s) : Idle(t)
    /\ rd.tables = tables[rd.s] /\ rd.had = Served(rd.s)
    /\ mt[rd.s].nil /\ tables[rd.s].novel = <<>>
    /\ manifest.exists /\ upstream[rd.s] = manifest.contents
    /\ call.op = "Commit" /\ StoreOf(call.t) = rd.s /\ call.ok
    /\ Len(rd.sent) > 0
    /\ HasMany(rd.s, rd.hs) \notin {{}, rd.hs}

\* C14: GetMany sends no chunk twice and sends only chunks of addresses that
\* were asked for and that the store held at the snapshot; when it has
\* returned, no read it started is still running and every address that was
\* asked for and held has had its chunk sent.
C14_GetManyDeliversOnce ==
    rd.op = "GetMany" =>
        /\ \A i, j \in 1..Len(rd.sent) : rd.sent[i] = rd.sent[j] => i = j
        /\ \A i \in 1..Len(rd.sent) : H(rd.sent[i]) \in rd.hs \cap rd.had
        /\ rd.pc = "idle" =>
              /\ rd.pending = {}
              /\ {H(rd.sent[i]) : i \in 1..Len(rd.sent)} = rd.hs \cap rd.had
\* GetMany has returned after asking the tables it kept; one address it asked
\* for was that of a chunk Put before, held by the memtable and by those
\* tables, another was nowhere
C14_Witness ==
    /\ ReadReturned("GetMany") /\ rd.remaining
    /\ \E b \in rd.puts : /\ H(b) \in rd.hs
                           /\ ~mt[rd.s].nil /\ mtHas(mt[rd.s], H(b))
                           /\ tsHas(rd.tables, H(b))
    /\ rd.hs \ rd.had # {}
    /\ Len(rd.sent) > 0

C16_UpstreamTablesWereStored ==
    \A s \in Stores : \A i \in 1..Len(tables[s].upstream) :
        TableName(tables[s].upstream[i]) \in stored

\* C17: in every step in which Put calls addChunk, when the store's memtable
\* (a fresh one if it had none) cannot take the chunk, that memtable becomes
\* the first novel table and the memtable afterwards is a fresh one, holding
\* the chunk if it fits there; when the memtable can take the chunk no table
\* is added; and Put fails exactly when the chunk is larger than the byte
\* budget of a fresh memtable.
C17_PutRotatesAndRetries ==
    [][\A t \in MuThreads :
        LET s == StoreOf(t)
            ok == pc'[t] = "pCount"
            b == IF ok THEN arg'[t].chunk ELSE call'.chunk
            m0 == IF mt[s].nil THEN newMemTable(mtSize[s]) ELSE mt[s]
            fresh == newMemTable(mtSize[s])
            cannot == ~mtHas(m0, H(b)) /\ mtTotal(m0) + Size(b) > mtSize[s]
        IN /\ Idle(t) /\ left' = left - 1
           /\ \/ ok
              \/ /\ pc' = pc /\ rd' = rd
                 /\ call'.op = "Put" /\ call'.t = t /\ call'.err = errAddChunkFailed
           => /\ ok <=> Size(b) <= mtSize[s]
              /\ IF cannot
                 THEN /\ tables'[s].novel = <<Persist(m0, tables[s])>> \o tables[s].novel
                      /\ tables'[s].upstream = tables[s].upstream
                      /\ mt'[s] = IF ok THEN [fresh EXCEPT !.order = <<b>>] ELSE fresh
                 ELSE /\ tables'[s] = tables[s]
                      /\ ~mt'[s].nil /\ mt'[s].size = mtSize[s]
                      /\ Range(mt'[s].order) = Range(m0.order) \cup {b}]_vars
\* a Put has returned nil after moving a memtable that one chunk had filled
\* to its byte budget into the novel tables
C17_Witness ==
    /\ call.op = "Put" /\ call.ok /\ "Prepend" \in call.calls
    /\ \E b \in Bytes : /\ Size(b) = mtSize[StoreOf(call.t)]
                       /\ tables[StoreOf(call.t)].novel = <<{b}>>
    /\ mtCount(mt[StoreOf(call.t)]) = 1

\* C18: a step of Rebase on a store leaves the manifest, the manifest update
\* lock, every memtable, every putCount, the store's novel tables and every
\* other store's tables and upstream contents as they were; when the manifest
\* exists the store's upstream contents become the manifest's and its upstream
\* tables those the manifest names, and when no manifest exists the store's
\* upstream contents and tables stay as they were.
C18_RebaseOnlyReplacesUpstream ==
    [][\A t \in Threads :
        LET s == StoreOf(t)
        IN /\ Idle(t) /\ left' = left - 1 /\ pc' = pc /\ rd' = rd
           /\ call'.op = "Rebase" /\ call'.t = t
           => /\ manifest' = manifest /\ mmLock' = mmLock /\ stored' = stored
              /\ mt' = mt /\ putCount' = putCount
              /\ tables'[s].novel = tables[s].novel
              /\ \A o \in Stores \ {s} :
                    tables'[o] = tables[o] /\ upstream'[o] = upstream[o]
              /\ IF manifest.exists
                 THEN /\ upstream'[s] = manifest.contents
                      /\ tables'[s].upstream =
                            [i \in 1..Len(manifest.contents.specs) |->
                                OpenTable(manifest.contents.specs[i])]
                 ELSE upstream'[s] = upstream[s] /\ tables'[s] = tables[s]]_vars
\* a Rebase has returned on a store that has a memtable, and the store's
\* upstream contents are the manifest's, which names a table
C18_Witness ==
    /\ call.op = "Rebase" /\ call.t \in Threads
    /\ ~mt[StoreOf(call.t)].nil
    /\ manifest.exists /\ upstream[StoreOf(call.t)] = manifest.contents
    /\ tables[StoreOf(call.t)].upstream # <<>>

\* C19: a step in which Commit(current, last) with current = last is called on
\* a store with no memtable and no novel table is the whole call: it leaves
\* the manifest and the manifest update lock as they were, whoever holds the
\* lock, makes the one call Fetch, leaves the store as Rebase leaves it and
\* returns (true, nil).
C19_CommitWithoutNovelChunksRebases ==
    [][\A t \in Threads :
        LET s == StoreOf(t)
            rb == rebaseStore(tables[s], upstream[s])
        IN /\ pc[t] = "idle" /\ left' = left - 1 /\ rd' = rd
           /\ mt[s].nil /\ tables[s].novel = <<>>
           /\ \/ pc'[t] = "cAttempt" /\ arg'[t].cur = arg'[t].last
              \/ /\ pc' = pc
                 /\ call'.op = "Commit" /\ call'.t = t /\ call'.cur = call'.last
           => /\ manifest' = manifest /\ stored' = stored /\ mmLock' = mmLock
              /\ pc'[t] = "idle"
              /\ call'.ok /\ call'.err = "nil" /\ call'.calls = {"Fetch"}
              /\ upstream'[s] = rb.upstream /\ tables'[s] = rb.tables
              /\ mt' = mt /\ putCount' = putCount]_vars
\* a Commit that only rebased has returned true while a thread of the other
\* store holds the manifest update lock, and the store has taken the
\* manifest's contents and table
C19_Witness ==
    /\ call.op = "Commit" /\ call.t \in Threads /\ call.ok /\ call.calls = {"Fetch"}
    /\ mmLock \in Threads \ {call.t}
    /\ manifest.exists /\ upstream[StoreOf(call.t)] = manifest.contents
    /\ tables[StoreOf(call.t)].upstream # <<>>

\* C20: the memtable, tables, upstream and putCount of a store are read and
\* written under the store's readers/writer lock only: no step changes any of
\* them while the reading goroutine holds the read side, and the reading
\* goroutine takes no step that reads the store's fields while a thread holds
\* the write side.
C20_QuartetOnlyUnderLock ==
    [][\A s \in Stores :
        /\ rLocked(s) =>
              /\ mt'[s] = mt[s] /\ tables'[s] = tables[s]
              /\ upstream'[s] = upstream[s] /\ putCount'[s] = putCount[s]
        /\ wLocked(s) =>
              ~(rd' # rd /\ rd.pc \in {"idle", "lNovel"} /\ rd'.s = s)]_vars

\* C21: no thread holds the write side of a store's readers/writer lock
\* between its manifest Fetch and its manifest Update, and no call that has
\* returned made a manifest Fetch or Update, a conjoin or a serialization of
\* tables (ToSpecs) between taking and releasing that lock.
C21_NoIOUnderLock ==
    /\ \A s \in Stores : ~wLocked(s)
    /\ call.op \in {"Commit", "Rebase", "UpdateManifest"} =>
          call.calls \cap {"Fetch", "Update", "Conjoin", "ToSpecs"} = {}

\* C22: a thread is between two attempts of a Commit only after an attempt
\* that ended in the tables conflict; a Commit whose last attempt ended in
\* the error of a failing count, conjoin, ToSpecs, Update or Rebase has
\* returned false with that error, and the failing call was made in it.
C22_OnlyTablesConflictRetries ==
    /\ \A t \in Threads :
          pc[t] = "cAttempt" => arg[t].why = errOptimisticLockFailedTables
    /\ call.op = "Commit" /\ call.t \in Threads
          /\ call.why \in {ioError(at) : at \in FailSites} =>
          /\ ~call.ok /\ call.err = call.why
          /\ call.why = ioError("Conjoin") => "Conjoin" \in call.calls
          /\ call.why = ioError("ToSpecs") => "ToSpecs" \in call.calls
          /\ call.why = ioError("Update") => "Update" \in call.calls
          /\ call.why = ioError("Rebase") =>
                call.calls \cap {"reconcile", "Conjoin", "Fetch"} # {}
\* a Commit has returned false with the error of a failing Update, in the
\* attempt that followed a conjoin
C22_Witness ==
    /\ call.op = "Commit" /\ call.t \in Threads
    /\ "Conjoin" \in call.lost
    /\ call.why = ioError("Update") /\ call.err = ioError("Update") /\ ~call.ok

\* C23: when a turn of Commit has conjoined, that is has written the
\* conjoined contents to the manifest and rebased the store onto them, every
\* address the store's tables held before the turn is served by Get
\* afterwards, with the bytes it was served with before.
C23_ConjoinKeepsChunks ==
    [][\A t \in Threads :
          (/\ pc'[t] = "cAttempt" /\ "Conjoin" \in arg'[t].calls
           /\ extLeft' = extLeft
           /\ manifest' # manifest
           /\ manifest'.contents = upstream'[StoreOf(t)])
          => \A a \in Addrs :
                tsHas(tables[StoreOf(t)], a) =>
                   /\ Get(StoreOf(t), a) # EmptyChunk =>
                         getChunk(mtGet(mt'[StoreOf(t)], a), tables'[StoreOf(t)], a)
                            = Get(StoreOf(t), a)
                   /\ tsHas(tables'[StoreOf(t)], a)]_vars

\* C24: the specs of the stored manifest name no table twice, whatever
\* sequence of Commit and UpdateManifest calls has written it.
C24_SpecsPairwiseDistinct ==
    \A i, j \in 1..Len(manifest.contents.specs) :
        i # j => manifest.contents.specs[i] # manifest.contents.specs[j]

\* C25: when a Commit has returned (true, nil) after its Update won, and
\* its thread has started nothing since, the store's upstream is contents
\* with the root of the Commit and tables the manifest has named, Flatten
\* returned no error, the store has no novel table, its upstream tables are
\* those its upstream names, and its memtable holds no chunk.
C25_WonCommitInstalls ==
    (/\ call.op = "Commit" /\ call.t \in Threads /\ call.ok /\ call.err = "nil"
     /\ "Update" \in call.calls /\ pc[call.t] = "idle")
    => /\ upstream[StoreOf(call.t)]
             = newContents(call.cur, upstream[StoreOf(call.t)].specs)
       /\ specNames(upstream[StoreOf(call.t)]) \subseteq stored
       /\ "Flatten failed" \notin call.calls
       /\ tsNovel(tables[StoreOf(call.t)]) = 0
       /\ tables[StoreOf(call.t)].upstream
             = [i \in 1..Len(upstream[StoreOf(call.t)].specs) |->
                   OpenTable(upstream[StoreOf(call.t)].specs[i])]
       /\ mtCount(mt[StoreOf(call.t)]) = 0

\* this step is a turn of the loop of a Commit of t, the first one or a
\* later one, that ran updateManifest
AttemptOf(t) ==
    /\ MayBeTurn(t) /\ "Fetch" \notin TurnCalls(t)
    /\ \A u \in Threads \ {t} : pc'[u] = pc[u]
    /\ rd' = rd /\ extLeft' = extLeft
    /\ \/ pc[t] = "idle" /\ left' = left - 1
       \/ pc[t] = "cAttempt" /\ left' = left

\* C26: an attempt of Commit first flushes the memtable, then checks the
\* cached lock, then compares last with the upstream root: an attempt of a
\* store whose memtable holds a chunk leaves the store without memtable, and
\* an attempt of a store whose lock the manifest cache knows to be stale
\* reconciles the store onto the cached contents, whatever last is.
C26_FlushStaleRootOrder ==
    [][\A t \in Threads :
          AttemptOf(t) =>
             /\ mtCount(mt[StoreOf(t)]) > 0 => mt'[StoreOf(t)].nil
             /\ updateWillFail(upstream[StoreOf(t)].lock)[2] =>
                   /\ "reconcile" \in TurnCalls(t)
                   /\ upstream'[StoreOf(t)] = cache.contents]_vars

\* C27: an attempt of Commit that passes the root comparison on a store
\* whose lock the manifest cache knows to be stale calls neither Update nor
\* ToSpecs nor Conjoin nor Prepend and leaves the manifest alone; it installs
\* the cached contents as upstream, keeps the novel tables and replaces the
\* upstream tables by those the cached specs name, and ends in the root
\* conflict when the cached root differs from last, else in the tables
\* conflict.
C27_DoomedAttemptReconciles ==
    [][\A t \in Threads :
          (/\ AttemptOf(t)
           /\ upstream[StoreOf(t)].root = TurnArgs(t).last
           /\ cache.hit /\ cache.contents.lock # upstream[StoreOf(t)].lock)
          => /\ TurnCalls(t) \cap {"Update", "ToSpecs", "Conjoin", "Prepend"} = {}
             /\ {"updateWillFail", "reconcile"} \subseteq TurnCalls(t)
             /\ manifest' = manifest /\ cache' = cache
             /\ upstream'[StoreOf(t)] = cache.contents
             /\ tables'[StoreOf(t)].upstream =
                   [i \in 1..Len(cache.contents.specs) |->
                       OpenTable(cache.contents.specs[i])]
             /\ tables'[StoreOf(t)].novel =
                   IF "preflush" \in TurnCalls(t)
                   THEN tsPrepend(tables[StoreOf(t)], mt[StoreOf(t)]).novel
                   ELSE tables[StoreOf(t)].novel
             /\ TurnArgs(t).why =
                   IF cache.contents.root # TurnArgs(t).last
                   THEN errOptimisticLockFailedRoot
                   ELSE errOptimisticLockFailedTables]_vars
\* a thread waits for its next attempt after one that only reconciled its
\* store onto cached contents that name a table
C27_Witness ==
    \E t \in Threads :
        /\ pc[t] = "cAttempt"
        /\ arg[t].calls \cap {"Update", "reconcile"} = {"reconcile"}
        /\ upstream[StoreOf(t)] = cache.contents
        /\ Len(tables[StoreOf(t)].upstream) > 0

\* C28: the step of Commit that ends at LockForUpdate moves a memtable of
\* more than preflushChunkCount chunks into the novel tables and leaves a
\* smaller one in place, and takes no manifest update lock; a memtable of
\* at most preflushChunkCount chunks is moved into the novel tables only by
\* an attempt of a Commit of its store, which no other thread's manifest
\* update lock precedes.
C28_PreflushOutsideLock ==
    [][\A t \in Threads :
          /\ (pc[t] = "idle" /\ pc'[t] = "cLock") =>
                /\ mmLock' = mmLock
                /\ IF mtCount(mt[StoreOf(t)]) > preflushChunkCount
                   THEN /\ mt'[StoreOf(t)].nil
                        /\ tables'[StoreOf(t)]
                              = tsPrepend(tables[StoreOf(t)], mt[StoreOf(t)])
                   ELSE /\ mt'[StoreOf(t)] = mt[StoreOf(t)]
                        /\ tables'[StoreOf(t)] = tables[StoreOf(t)]
          /\ (/\ mtCount(mt[StoreOf(t)]) \in 1..preflushChunkCount
              /\ mt'[StoreOf(t)].nil) =>
                /\ pc[t] \in {"cLock", "cAttempt"}
                /\ mmLock \in {"none", t}
                /\ MayBeTurn(t) /\ "Prepend" \in TurnCalls(t)]_vars
\* a thread waits for the manifest update lock that another thread holds,
\* its store's memtable already moved into the novel tables
C28_Witness ==
    \E t \in Threads :
        /\ pc[t] = "cLock" /\ "preflush" \in arg[t].calls
        /\ mmLock \notin {"none", t}
        /\ mt[StoreOf(t)].nil /\ tsNovel(tables[StoreOf(t)]) > 0

\* C29: a Commit returns (false, nil) only from an attempt that found the
\* store's upstream root different from last, or that reconciled the store
\* onto contents, returned by Update or held by the manifest cache, whose
\* root differs from last; an attempt that reconciled the store onto
\* contents with the root last, or that conjoined, does not end the Commit:
\* the thread goes on to another attempt.
C29_FalseNilOnlyOnRootDifference ==
    [][\A t \in Threads :
          AttemptOf(t) =>
             /\ ReturnsFalseNil(t) =>
                   \/ /\ upstream[StoreOf(t)].root # call'.last
                      /\ call'.why = errLastRootMismatch
                   \/ /\ "reconcile" \in call'.calls
                      /\ upstream'[StoreOf(t)].root # call'.last
                      /\ call'.why = errOptimisticLockFailedRoot
             /\ (/\ "reconcile" \in TurnCalls(t)
                 /\ upstream'[StoreOf(t)].root = TurnArgs(t).last)
                => pc'[t] = "cAttempt"
             /\ TurnArgs(t).why = errOptimisticLockFailedTables
                => pc'[t] = "cAttempt"]_vars
\* a thread waits for another attempt after its Update lost to contents
\* with the root last and other tables
C29_Witness ==
    \E t \in Threads :
        /\ pc[t] = "cAttempt"
        /\ {"Update", "reconcile"} \subseteq arg[t].calls
        /\ upstream[StoreOf(t)].root = arg[t].last
        /\ upstream[StoreOf(t)].specs # <<>>

\* C30: an attempt of Commit that passes the root comparison and the check
\* of the cached lock on a store with more than MaxTables upstream tables
\* conjoins while its thread holds the manifest update lock, which it keeps
\* for the next attempt; it calls neither ToSpecs nor Update for contents of
\* its own, the root of the manifest stays what it was, the store's
\* upstream becomes the contents the manifest holds and its upstream tables
\* those they name, and the attempt ends in the tables conflict.
C30_ConjoinAttempt ==
    [][\A t \in Threads :
          (/\ AttemptOf(t)
           /\ upstream[StoreOf(t)].root = TurnArgs(t).last
           /\ ~updateWillFail(upstream[StoreOf(t)].lock)[2]
           /\ Len(tables[StoreOf(t)].upstream) > MaxTables)
          => /\ "Conjoin" \in TurnCalls(t)
             /\ TurnCalls(t) \cap {"ToSpecs", "Update"} = {}
             /\ mmLock \in {"none", t} /\ mmLock' = t
             /\ pc'[t] = "cAttempt"
             /\ arg'[t].why = errOptimisticLockFailedTables
             /\ manifest'.contents.root = manifest.contents.root
             /\ upstream'[StoreOf(t)] = manifest'.contents
             /\ tables'[StoreOf(t)].upstream =
                   [i \in 1..Len(manifest'.contents.specs) |->
                       OpenTable(manifest'.contents.specs[i])]]_vars
\* a thread waits for another attempt after one that conjoined two tables
\* of the manifest into one
C30_Witness ==
    \E t \in Threads :
        /\ pc[t] = "cAttempt" /\ "Conjoin" \in arg[t].calls
        /\ upstream[StoreOf(t)] = manifest.contents
        /\ Len(manifest.contents.specs) = 1
        /\ Cardinality(manifest.contents.specs[1]) = 2

\* C31: UpdateManifest returns a nil error only if, as it returns, the
\* manifest names every table of updates and the store's upstream, which is
\* what the call returns after an Update, equals the contents the manifest
\* holds.
C31_UpdateManifestNilMeansAdded ==
    [][\A t \in Threads :
          (/\ call'.op = "UpdateManifest" /\ call'.t = t /\ call'.ok
           /\ pc'[t] = "idle"
           /\ \A u \in Threads \ {t} : pc'[u] = pc[u]
           /\ pc[t] = "uUpdate" \/ (pc[t] = "idle" /\ left' = left - 1))
          => /\ call'.updates \subseteq specNames(manifest'.contents)
             /\ upstream'[StoreOf(t)] = manifest'.contents]_vars

\* C32: UpdateManifest leaves the root of the manifest as it is; what it
\* writes is the contents it fetched with the missing updates appended, so
\* every spec of the manifest stays; a call all of whose updates the
\* manifest names returns after its Fetch, having written nothing and with
\* the store's memtable, tables and upstream as they were, and only such a
\* call returns there.
C32_UpdateManifestFrame ==
    [][\A t \in Threads :
          /\ (pc[t] = "uUpdate" /\ pc'[t] = "idle")
             => /\ manifest'.contents.root = manifest.contents.root
                /\ specNames(manifest.contents) \subseteq specNames(manifest'.contents)
                /\ manifest' # manifest
                   => /\ manifest'.contents = arg[t].contents
                      /\ SubSeq(manifest'.contents.specs, 1,
                                Len(manifest.contents.specs)) = manifest.contents.specs
                      /\ specNames(manifest'.contents) =
                            specNames(manifest.contents) \cup call'.updates
          /\ (/\ pc[t] = "idle" /\ pc'[t] = "idle" /\ left' = left - 1
              /\ \A u \in Threads \ {t} : pc'[u] = pc[u]
              /\ call'.op = "UpdateManifest" /\ call'.t = t)
             => /\ call'.updates \subseteq specNames(manifest.contents)
                /\ UNCHANGED <<manifest, mt, tables, upstream>>
          /\ (pc[t] = "idle" /\ pc'[t] = "uUpdate")
             => /\ ~(arg'[t].updates \subseteq specNames(manifest.contents))
                /\ UNCHANGED <<manifest, mt, tables, upstream>>]_vars
\* an UpdateManifest has returned after its Fetch from a manifest that names
\* two tables, the second appended by an earlier UpdateManifest
C32_Witness ==
    /\ call.op = "UpdateManifest" /\ call.calls = {"Fetch"}
    /\ call.updates \subseteq specNames(manifest.contents)
    /\ Len(manifest.contents.specs) = 2
    /\ manifest.contents.lock = ZeroLock

\* C33: a store is constructed with the zero contents and its upstream
\* contents only ever change to contents the manifest has held, so Root()
\* returns the zero root of a store that has seen no manifest or a root the
\* manifest has held; this holds across every step, the return of (false,
\* nil) by Commit included.
C33_UpstreamWasInManifest ==
    /\ \A s \in Stores : upstream[s] = EmptyContents
    /\ [][\A s \in Stores :
             upstream'[s] # upstream[s]
             => /\ upstream'[s] \in history'.seen
                /\ Root(s)' \in {c.root : c \in history'.seen}]_vars
\* a Commit has returned (false, nil) after its Update lost to a moved root,
\* and the store it left is not at the contents the manifest holds now
C33_Witness ==
    /\ call.op = "Commit" /\ call.t \in Threads /\ ~call.ok /\ call.err = "nil"
    /\ {"Update", "reconcile"} \subseteq call.calls
    /\ Root(StoreOf(call.t)) # ZeroRoot
    /\ upstream[StoreOf(call.t)] \in history.seen
    /\ Cardinality(history.seen) > 1

\* C34: a Commit that returns (false, nil) or an error loses no chunk: every
\* address Get served on the store before the attempt that ended the Commit,
\* and every chunk the store held in its memtable or its novel tables when
\* the Commit was called, is served by Get on the store afterwards.
C34_FailedCommitKeepsChunks ==
    [][\A t \in Threads :
          (/\ AttemptOf(t) /\ pc'[t] = "idle"
           /\ call'.op = "Commit" /\ call'.t = t /\ ~call'.ok)
          => /\ \A a \in Addrs :
                   Get(StoreOf(t), a) # EmptyChunk
                   => Get(StoreOf(t), a)' = Get(StoreOf(t), a)
             /\ \A b \in call'.held : Get(StoreOf(t), H(b))' = b]_vars

\* C35: a Put that returns an error leaves putCount as it was, does not make
\* the offered chunk readable and keeps every chunk readable that was (the
\* chunks of the memtable it rotated are in the novel tables); a Put that
\* returns nil leaves putCount one higher than it found it, whichever
\* goroutine calls it and whatever the other goroutine does meanwhile.
C35_PutCountsReturnedNil ==
    [][/\ \A t \in MuThreads :
             /\ (/\ pc[t] = "idle" /\ pc'[t] = "idle" /\ rd' = rd
                 /\ call'.op = "Put" /\ call'.t = t
                 /\ call'.err = errAddChunkFailed /\ left' = left - 1)
                => /\ putCount' = putCount
                   /\ \A a \in Addrs : Get(StoreOf(t), a)' = Get(StoreOf(t), a)
                   /\ Range(mt[StoreOf(t)].order) \subseteq
                         UNION Range(tables'[StoreOf(t)].novel)
                            \cup UNION tsAll(tables[StoreOf(t)])
             /\ (pc[t] = "pCount" /\ pc'[t] = "idle")
                => putCount'[StoreOf(t)] = putCount[StoreOf(t)] + 1
       /\ \A s \in Stores :
             (/\ rd.pc = "idle" /\ rd'.pc = "idle" /\ rd'.op = "Put" /\ rd'.s = s
              /\ left' = left - 1 /\ pc' = pc)
             => /\ putCount' = putCount
                /\ \A a \in Addrs : Get(s, a)' = Get(s, a)
       /\ (rd.pc = "pStore" /\ rd'.pc = "idle")
          => putCount'[rd.s] = putCount[rd.s] + 1]_vars

\* C36: no Commit returns success == true together with an error.
C36_NoSuccessWithError ==
    call.op = "Commit" /\ call.t \in Threads /\ call.ok => call.err = "nil"

\* the threads inside the region the manifest update lock guards
InUpdateRegion == {t \in Threads : pc[t] \in {"cFirst", "cAttempt", "uLock", "uUpdate"}}
\* C37: no interleaving of the calls deadlocks.  While a call is under way
\* some call under way can take a step; the threads inside the region of the
\* manifest update lock are at most one, the holder of the lock; nbs.mu is
\* held across steps only by the holder of the update lock or by a reader;
\* a thread takes the update lock while it holds no nbs.mu; and a thread
\* outside every call holds no lock.
C37_NoDeadlockLocksOrdered ==
    /\ []((\E t \in Threads : ~Idle(t)) \/ rd.pc # "idle" => ENABLED LockSteps)
    /\ [](InUpdateRegion = {t \in Threads : mmLock = t})
    /\ [](\A s \in Stores : wLocked(s) =>
             \E t \in Threads : StoreOf(t) = s /\ pc[t] = "uUpdate" /\ mmLock = t)
    /\ [](\A t \in Threads : Idle(t) => mmLock # t /\ pc[t] # "uUpdate")
    /\ [](rd.pc = "idle" => \A s \in Stores : ~rLocked(s))
    /\ [][\A t \in Threads : mmLock' = t /\ mmLock # t =>
             pc[t] \in {"idle", "cLock"} /\ ~wLocked(StoreOf(t))]_vars
\* a thread holds the update lock and waits for nbs.mu, which a reader
\* holds, while the thread of the other store waits for the update lock
C37_Witness ==
    \E t \in Threads, u \in Threads :
        /\ mmLock = t /\ pc[t] \in {"cFirst", "uLock"} /\ rLocked(StoreOf(t))
        /\ pc[u] = "cLock"

\* C38: when GetChunkLocations returns, every requested address that a
\* table of the store held when the call began and holds now has exactly
\* one range, filed under a table that holds the chunk; every range is of
\* a requested address; an address that no table held gets no range; and
\* every table key of the result has at least one range.
C38_OneRangePerLocatedHash ==
    [][rd.pc = "lNovel" /\ rd'.pc = "idle" =>
          /\ \A a \in rd.hs :
                tsHas(rd.tables, a) /\ tsHas(tables[rd.s], a) =>
                    Cardinality({p \in rd'.ranges : p[2] = a}) = 1
          /\ \A p \in rd'.ranges :
                p[2] \in rd.hs /\ tableHas(OpenTable(p[1]), p[2])
          /\ \A a \in rd.hs :
                ~tsHas(rd.tables, a) /\ ~tsHas(tables[rd.s], a) =>
                    \A p \in rd'.ranges : p[2] # a
          /\ \A k \in rd'.keys : \E p \in rd'.ranges : p[1] = k]_vars

\* C39: when CalcReads returns nil, every requested address the store
\* served when the call began is covered by the estimate, and when it
\* returns an error some requested address is not covered; it returns the
\* error 'failed to find all chunks' with no reads only when some
\* requested address is in none of memtable, novel and upstream, that is
\* was not served when the call began or is not served when it returns.
C39_CalcReadsErrorOnlyWhenAbsent ==
    [][rd.pc = "crCalc" /\ rd'.pc = "idle" =>
          /\ rd'.err = "nil" => rd.hs \cap rd.had \subseteq rd'.found
          /\ rd'.err # "nil" => ~(rd.hs \subseteq rd'.found)
          /\ rd'.err = "failed to find all chunks" =>
                /\ rd'.data = 0
                /\ \E a \in rd.hs : a \notin rd.had \/ ~Has(rd.s, a)]_vars

\* C40: Count takes the memtable's count and the table set from one state
\* of the store, under the read lock, and returns that memtable count plus
\* the count of those tables whatever is written before it returns: every
\* address the store served in that state is counted, and no chunk is
\* counted for a place it was moved to afterwards.
C40_CountOfOneSnapshot ==
    [][/\ rd.pc = "idle" /\ rd'.pc = "cnTables" =>
             /\ rd'.data = (IF mt[rd'.s].nil THEN 0 ELSE mtCount(mt[rd'.s]))
             /\ rd'.tables = tables[rd'.s]
             /\ UNCHANGED <<mt, tables>>
       /\ rd.pc = "cnTables" /\ rd'.pc = "idle" =>
             /\ rd'.data = rd.data + tsCount(rd.tables)
             /\ rd'.data >= Cardinality(rd.had)]_vars
\* Count has returned after a Commit moved the memtable it had counted
\* into the tables
C40_Witness ==
    /\ rd.pc = "idle" /\ rd.op = "Count"
    /\ call.op = "Commit" /\ call.ok
    /\ mt[rd.s].nil /\ rd.tables # tables[rd.s]
    /\ rd.data > tsCount(rd.tables)
    /\ rd.data = tsCount(tables[rd.s])

====
